---- MODULE Spec2Model ----
(***************************************************************************)
(* A model of yasha: companion-file discovery (yasha/main.py), the Yasha   *)
(* session class (yasha/main.py) and the command line (yasha/cli.py,       *)
(* yasha/util.py).                                                         *)
(*                                                                         *)
(* A file name is the sequence of its dot-separated components:            *)
(* "template.sh.j2" is <<"template","sh","j2">> and ".rc.j2" is            *)
(* <<"","rc","j2">>.  A directory is the sequence of the directory names   *)
(* leading to it, and a path is a record [dir, name].  An extension        *)
(* ".json" is the component "json".                                        *)
(***************************************************************************)
EXTENDS Integers, Sequences, FiniteSets, TLC

VARIABLES
    fsFiles,    \* the paths that exist as regular files
    fsDirs,     \* the paths that exist as directories (named like files)
    call,       \* the last call of find_template_companion_files, or NoCall
    returned,   \* the set that call returned
    TESTS,      \* yasha.tests.TESTS, a dictionary of the process
    FILTERS,    \* yasha.filters.FILTERS, a dictionary of the process
    PARSERS,    \* yasha.parsers.PARSERS, a dictionary of the process
    CLASSES,    \* yasha.classes.CLASSES, a list of the process
    DEFAULTS,   \* the upper-case attributes of the module jinja2.defaults
    invocations,\* the number of command-line invocations of the process
    inv,        \* the command-line invocation that just ended, or NoInv
    yasha,      \* the Yasha instance of the process, or NoSession
    heap,       \* the environments and the dictionaries and lists they hold
    constructed,\* the instance and the heap as Yasha.__init__ left them
    result,     \* what the last call on the instance gave
    log         \* the calls made and the companion files they loaded

fsVars == <<fsFiles, fsDirs>>
finderVars == <<call, returned>>
processVars == <<TESTS, FILTERS, PARSERS, CLASSES, DEFAULTS>>
cliVars == <<invocations, inv>>
sessionVars == <<yasha, heap, constructed, result, log>>
vars == <<fsFiles, fsDirs, call, returned,
          TESTS, FILTERS, PARSERS, CLASSES, DEFAULTS, invocations, inv,
          yasha, heap, constructed, result, log>>

(***************************************************************************)
(* Bounds and universes                                                    *)
(***************************************************************************)
MaxEntries == 2     \* directory entries created in one behaviour
MaxInvocations == 2 \* command-line invocations in one process
MaxCalls == 2       \* calls on one Yasha instance
MaxFiles == 3       \* variable files given to one Yasha instance

Dirs == { <<"a">>, <<"a","b">>, <<"a","b","c">>, <<"a","x">> }

FileNames == { <<"t","json">>, <<"t","sh","json">>, <<"t","py">>,
               <<"u","json">>, <<"","rc","json">>, <<"","j2","json">>,
               <<"t","sh","j2">> }

DirEntryNames == { <<"t","json">> }

FilePaths == { [dir |-> d, name |-> n] : d \in Dirs, n \in FileNames }
DirEntryPaths == { [dir |-> d, name |-> n] : d \in Dirs, n \in DirEntryNames }

Templates == { [dir |-> <<"a","b","c">>, name |-> <<"t","sh","j2">>],
               [dir |-> <<"a","b">>,     name |-> <<"t","json">>],
               [dir |-> <<"a","b">>,     name |-> <<"","rc","j2">>] }

ExtensionSets == { {"json"}, {"json","py"} }

None == [given |-> FALSE, dir |-> <<>>]
Some(d) == [given |-> TRUE, dir |-> d]
Roots == {None} \cup { Some(d) : d \in Dirs }

NoCall == [made |-> FALSE]

(***************************************************************************)
(* pathlib                                                                 *)
(***************************************************************************)
Front(s) == SubSeq(s, 1, Len(s) - 1)
Last(s) == s[Len(s)]

IsPrefix(p, s) == Len(p) <= Len(s) /\ SubSeq(s, 1, Len(p)) = p

\* str.lstrip('.') on a name: every leading dot is a leading empty component
RECURSIVE LStripDots(_)
LStripDots(name) ==
    IF Len(name) > 1 /\ name[1] = "" THEN LStripDots(Tail(name)) ELSE name

\* PurePath.suffixes, as components
Suffixes(name) ==
    IF Len(name) > 1 /\ Last(name) = "" THEN <<>>
    ELSE Tail(LStripDots(name))

\* PurePath.suffix is non-empty: the last dot is neither first nor last
HasSuffix(name) ==
    /\ Len(name) >= 2
    /\ Last(name) # ""
    /\ ~(Len(name) = 2 /\ name[1] = "")

\* PurePath.suffix, as a component ("" when there is none)
Suffix(name) == IF HasSuffix(name) THEN Last(name) ELSE ""

\* PurePath.with_suffix('.' + e)
WithSuffix(name, e) ==
    IF HasSuffix(name) THEN Front(name) \o <<e>> ELSE name \o <<e>>

\* template.parents: the template's directory and every ancestor of it
Parents(template) == { SubSeq(template.dir, 1, k) : k \in 0..Len(template.dir) }

(***************************************************************************)
(* find_template_companion_files                                           *)
(***************************************************************************)
\* the names looked for in each folder
DataFileNames(template, extensions) ==
    LET basename == template.name[1]
        suffixes == Suffixes(template.name)
    IN { WithSuffix(<<basename>> \o SubSeq(suffixes, 1, i), e) :
            i \in 1..Len(suffixes), e \in extensions }

\* a finder that forgets the is_file() filter
IsFile_Unchecked(files, p) == TRUE

IsFile(files, p) == p \in files

\* a finder that walks up to the top of the tree whatever recurse_up_to is
FindTemplateCompanionFiles_NoBoundary(files, template, extensions, recurse_up_to) ==
    LET data_file_names == DataFileNames(template, extensions)
    IN { p \in { [dir |-> d, name |-> n] :
                    d \in Parents(template) \ {<<>>}, n \in data_file_names } :
            p \in files }

FindTemplateCompanionFiles(files, template, extensions, recurse_up_to) ==
    LET data_file_names == DataFileNames(template, extensions)
        own == { [dir |-> template.dir, name |-> n] : n \in data_file_names }
        up == IF recurse_up_to.given /\ recurse_up_to.dir \in Parents(template)
              THEN LET root == recurse_up_to.dir
                       relative_path ==
                           SubSeq(template.dir, Len(root) + 1, Len(template.dir))
                   IN { [dir |-> root \o SubSeq(relative_path, 1, k), name |-> n] :
                           k \in 0..(Len(relative_path) - 1),
                           n \in data_file_names }
              ELSE {}
    IN { p \in own \cup up : IsFile(files, p) }


(***************************************************************************)
(* Dictionaries and values                                                 *)
(***************************************************************************)
EmptyDict == [k \in {} |-> 0]

\* dict.update: d updated with e
Update(d, e) ==
    [k \in DOMAIN d \cup DOMAIN e |-> IF k \in DOMAIN e THEN e[k] ELSE d[k]]

\* a value of a data file: a scalar, written as its text, or a nested mapping
Scalar(text) == [tag |-> "scalar", text |-> text, sub |-> EmptyDict]
Mapping(sub) == [tag |-> "mapping", text |-> "", sub |-> sub]

\* a value of a command-line variable: a string, a number or a boolean with
\* the words of its text, or a list or a tuple with its items
Py(tag, text, items) == [tag |-> tag, text |-> text, items |-> items]

\* str(value), what a template prints for the value, word by word
Str(value) ==
    CASE value.tag = "scalar" -> << value.text >>
      [] value.tag \in {"str", "number", "bool"} -> value.text
      [] value.tag \in {"list", "tuple"} -> << "<sequence>" >>
      [] OTHER -> << "<mapping>" >>

(***************************************************************************)
(* The files of the command line's disk                                    *)
(***************************************************************************)
F(dir, name) == [dir |-> dir, name |-> name]

FooTemplate   == F(<<"w","sub">>, <<"foo","c","j2">>)
ValueTemplate == F(<<"w">>, <<"template","j2">>)
HeaderInc     == F(<<"w","sub">>, <<"header","j2inc">>)
FooCJson      == F(<<"w","sub">>, <<"foo","c","json">>)
SubFooJson    == F(<<"w","sub">>, <<"foo","json">>)
TopFooJson    == F(<<"w">>, <<"foo","json">>)
FooExt        == F(<<"w","sub">>, <<"foo","py">>)
AYaml         == F(<<"w">>, <<"a","yaml">>)
BToml         == F(<<"w">>, <<"b","toml">>)
DataJson      == F(<<"w">>, <<"data","json">>)
DataIni       == F(<<"w">>, <<"data","ini">>)
ExtPy         == F(<<"w">>, <<"ext","py">>)
OutTxt        == F(<<"w">>, <<"out","txt">>)
OrderPy       == F(<<"w">>, <<"order","py">>)
NameErrPy     == F(<<"w">>, <<"nameerr","py">>)
DataTxt       == F(<<"w">>, <<"data","txt">>)
ShTemplate    == F(<<"w","sub">>, <<"foo","sh","j2">>)
ChainTemplate == F(<<"w","sub">>, <<"chain","j2">>)
MidInc == F(<<"w","sub">>, <<"mid","j2inc">>)
FooJ2Ext      == F(<<"w","sub">>, <<"foo","j2ext">>)

\* the text of a template: literal text, {{ name }} and {% include "name" %}
Text(s)      == [kind |-> "text", s |-> s, ref |-> <<>>]
Var(name)    == [kind |-> "var", s |-> name, ref |-> <<>>]
Include(ref) == [kind |-> "include", s |-> "", ref |-> ref]
Filter(name) == [kind |-> "filter", s |-> name, ref |-> <<>>]

ReadText(path) ==
    CASE path = FooTemplate ->
            << Include(<<"header","j2inc">>), Text("int x = "), Var("int"),
               Text(";") >>
      [] path = ValueTemplate ->
            << Text("The value of foo is "), Var("foo"), Text(".") >>
      [] path = HeaderInc -> << Text("#include <stdio.h>") >>
      [] path = ChainTemplate -> << Include(<<"mid","j2inc">>) >>
      [] path = MidInc -> << Include(<<"header","j2inc">>), Text("/* mid */") >>
      [] OTHER -> << >>

\* what a data file holds
DataOf(path) ==
    CASE path = FooCJson   -> [int |-> Scalar("2")]
      [] path = SubFooJson -> [int |-> Scalar("1")]
      [] path = TopFooJson -> [int |-> Scalar("0"), foo |-> Scalar("top")]
      [] path = AYaml      -> [a |-> Scalar("1"), b |-> Scalar("100")]
      [] path = BToml      -> [b |-> Scalar("2"), c |-> Scalar("3")]
      [] path = DataJson   -> [key1 |-> Scalar("value1"),
                               key2 |-> Mapping([subkey1 |-> "value"]),
                               foo |-> Scalar("bar")]
      [] path = DataIni    -> [key2 |-> Mapping([subkey2 |-> "value"])]
      [] OTHER -> EmptyDict

\* a function object: the file that defines it and its name, as a prefix
\* (test_, filter_, parse_ or none) and the rest
Function(file, prefix, name) == [file |-> file, prefix |-> prefix, name |-> name]

\* what an extension file defines: its functions test_X, filter_X, parse_X
\* (the X), the bulk dictionaries TESTS, FILTERS, PARSERS it has, and its
\* upper-case jinja settings
NoBulk == [present |-> FALSE, dict |-> EmptyDict]
Bulk(d) == [present |-> TRUE, dict |-> d]

ModuleOf(path) ==
    CASE path = FooExt ->
            [ error |-> "none", msg |-> "", lineno |-> "", bulkFirst |-> {},
              test_ |-> {"divisiblebythree"}, bulkTests |-> NoBulk,
              filter_ |-> {},
              bulkFilters |-> Bulk([filterfoo |-> Function(FooExt, "", "lambda")]),
              parse_ |-> {"json"}, bulkParsers |-> NoBulk,
              classes |-> << >>, bulkClasses |-> << >>,
              settings |-> EmptyDict ]
      [] path = ExtPy ->
            [ error |-> "none", msg |-> "", lineno |-> "", bulkFirst |-> {},
              test_ |-> {"divisiblebythree"},
              bulkTests |-> Bulk([divisiblebyfour |->
                                    Function(ExtPy, "", "is_divisible_by_four")]),
              filter_ |-> {"my_replace"},
              bulkFilters |-> Bulk([split |-> Function(ExtPy, "", "lambda")]),
              parse_ |-> {"xml"},
              bulkParsers |-> Bulk([specialxml |-> Function(ExtPy, "parse_", "xml")]),
              classes |-> << "ExprStmtExtension" >>,
              bulkClasses |-> << "InternationalizationExtension" >>,
              settings |-> [BLOCK_START_STRING |-> "<%",
                            BLOCK_END_STRING |-> "%>",
                            VARIABLE_START_STRING |-> "<<",
                            VARIABLE_END_STRING |-> ">>",
                            COMMENT_START_STRING |-> "<#",
                            COMMENT_END_STRING |-> "#>"] ]
      [] path = OrderPy ->
            \* TESTS = {'even': is_even} comes before def test_even, and
            \* def filter_upper before FILTERS = {'upper': shout}
            [ error |-> "none", msg |-> "", lineno |-> "", bulkFirst |-> {"tests"},
              test_ |-> {"even"},
              bulkTests |-> Bulk([even |-> Function(OrderPy, "", "is_even")]),
              filter_ |-> {"upper"},
              bulkFilters |-> Bulk([upper |-> Function(OrderPy, "", "shout")]),
              parse_ |-> {}, bulkParsers |-> NoBulk,
              classes |-> << >>, bulkClasses |-> << >>,
              settings |-> EmptyDict ]
      [] path = NameErrPy ->
            \* print(asd)
            [ error |-> "name", msg |-> "name 'asd' is not defined",
              lineno |-> "1", bulkFirst |-> {},
              test_ |-> {}, bulkTests |-> NoBulk,
              filter_ |-> {}, bulkFilters |-> NoBulk,
              parse_ |-> {}, bulkParsers |-> NoBulk,
              classes |-> << >>, bulkClasses |-> << >>,
              settings |-> EmptyDict ]
      [] OTHER ->
            \* def foo() without its colon
            [ error |-> "syntax", msg |-> "invalid syntax",
              lineno |-> "1", bulkFirst |-> {},
              test_ |-> {}, bulkTests |-> NoBulk,
              filter_ |-> {}, bulkFilters |-> NoBulk,
              parse_ |-> {}, bulkParsers |-> NoBulk,
              classes |-> << >>, bulkClasses |-> << >>,
              settings |-> EmptyDict ]

(***************************************************************************)
(* The dictionaries of the process when it starts                          *)
(***************************************************************************)
YashaTests   == F(<<"yasha">>, <<"tests","py">>)
YashaFilters == F(<<"yasha">>, <<"filters","py">>)
YashaParsers == F(<<"yasha">>, <<"parsers","py">>)

InitialTESTS   == [file |-> Function(YashaTests, "test_", "file")]
InitialFILTERS == [env |-> Function(YashaFilters, "filter_", "env")]
InitialPARSERS ==
    [ json |-> Function(YashaParsers, "parse_", "json"),
      yaml |-> Function(YashaParsers, "parse_", "yaml"),
      toml |-> Function(YashaParsers, "parse_", "toml"),
      ini  |-> Function(YashaParsers, "parse_", "ini") ]
InitialCLASSES == << >>
InitialDEFAULTS ==
    [ VARIABLE_START_STRING |-> "{{", VARIABLE_END_STRING |-> "}}",
      BLOCK_START_STRING |-> "{%", BLOCK_END_STRING |-> "%}",
      COMMENT_START_STRING |-> "{#", COMMENT_END_STRING |-> "#}" ]

\* the extensions the command line takes for extension files
EXTENSION_FILE_FORMATS == {"py", "yasha", "j2ext", "jinja-ext"}

\* the parsers of yasha/parsers.py take an open binary file and read it
ReadsItsArgument(parser) == parser.file = YashaParsers

(***************************************************************************)
(* os.path                                                                 *)
(***************************************************************************)
NoPath == F(<< >>, << >>)

\* the absolute path a relative path stands for
RelPathTarget(line, cwd) ==
    F(SubSeq(cwd, 1, Len(cwd) - line.target.up) \o line.target.dir, line.target.name)

\* the order of Python's strings on the components of the model's names
ComponentsInOrder ==
    << "", "a", "b", "c", "chain", "data", "ext", "foo", "header", "ini", "j2",
       "j2ext", "j2inc", "json", "mid", "nameerr", "order", "out", "py", "sh",
       "template", "toml", "txt", "yaml" >>
Rank(c) == CHOOSE i \in 1..Len(ComponentsInOrder) : ComponentsInOrder[i] = c

RECURSIVE NameBefore(_, _)
NameBefore(m, n) ==
    IF m = << >> THEN n # << >>
    ELSE IF n = << >> THEN FALSE
    ELSE IF m[1] = n[1] THEN NameBefore(Tail(m), Tail(n))
    ELSE Rank(m[1]) < Rank(n[1])

\* sorted(names)
RECURSIVE Sorted(_)
Sorted(names) ==
    IF names = {} THEN << >>
    ELSE LET first == CHOOSE m \in names :
                         \A n \in names \ {m} : NameBefore(m, n)
         IN <<first>> \o Sorted(names \ {first})

\* the number of leading components two directories share
RECURSIVE CommonLen(_, _)
CommonLen(c, d) ==
    IF c = << >> \/ d = << >> \/ c[1] # d[1] THEN 0
    ELSE 1 + CommonLen(Tail(c), Tail(d))

\* os.path.dirname(os.path.commonprefix((c, d))): commonprefix compares
\* characters, so it ends inside a component, or at the end of c or of d
DirnameOfCommonPrefix(c, d) ==
    LET k == CommonLen(c, d)
    IN IF k > 0 /\ (Len(c) = k \/ Len(d) = k)
       THEN SubSeq(c, 1, k - 1)
       ELSE SubSeq(c, 1, k)

\* os.path.splitext(name)[0]: leading dots are not an extension's dot
SplitExtRoot(name) ==
    IF Len(name) >= 2 /\ \E i \in 1..(Len(name) - 1) : name[i] # ""
    THEN Front(name) ELSE name

\* os.path.relpath(path, cwd): the ".." steps, then what remains of path
RelPath(path, cwd) ==
    LET k == CommonLen(path.dir, cwd)
    IN [ up |-> Len(cwd) - k,
         dir |-> SubSeq(path.dir, k + 1, Len(path.dir)),
         name |-> path.name ]

\* a file name as text: its components with the dots between them
RECURSIVE NameText(_)
NameText(name) ==
    IF Len(name) <= 1 THEN name
    ELSE << name[1], "." >> \o NameText(Tail(name))

\* a relative path as text: "../" for every step up, the directories with
\* their "/", the file name
RelPathText(rel) ==
    [i \in 1..rel.up |-> "../"]
        \o [i \in 1..(2 * Len(rel.dir)) |->
               IF i % 2 = 1 THEN rel.dir[(i + 1) \div 2] ELSE "/"]
        \o NameText(rel.name)

\* msg[0].upper() + msg[1:] of the messages of the model
UpperFirst(msg) ==
    CASE msg = "invalid syntax" -> "Invalid syntax"
      [] OTHER -> msg

\* str.endswith('.' + e) for a file name
EndsWith(name, e) == Len(name) >= 2 /\ Last(name) = e

(***************************************************************************)
(* yasha/util.py                                                           *)
(***************************************************************************)
\* os.listdir(dir): the names with a dot in dir (the others match no token)
ListDir(files, dirs, dir) == { p.name : p \in { q \in files \cup dirs : q.dir = dir } }

\* the files one directory contributes to find_template_companion
CompanionsIn(files, dirs, template, current_path) ==
    LET template_basename == template.name
        n == Len(template_basename)
        Yields(file_parts) ==
            /\ Len(file_parts) >= 2
            /\ file_parts[1] = template_basename[1]
            /\ \E i \in 1..(n - 1) :
                  /\ SubSeq(template_basename, 1, n - i) = Front(file_parts)
                  /\ ~(current_path = template.dir /\ file_parts = template_basename)
        listing == Sorted(ListDir(files, dirs, current_path))
    IN SelectSeq([i \in 1..Len(listing) |-> F(current_path, listing[i])],
                 LAMBDA p : Yields(p.name))

RECURSIVE WalkUp(_, _, _, _, _)
WalkUp(files, dirs, template, current_path, stop_path) ==
    CompanionsIn(files, dirs, template, current_path)
        \o (IF current_path = stop_path THEN << >>
            ELSE WalkUp(files, dirs, template, Front(current_path), stop_path))

\* find_template_companion(template): the list the generator yields
FindTemplateCompanion(files, dirs, template, cwd) ==
    IF template \notin files THEN << NoPath >>
    ELSE WalkUp(files, dirs, template, template.dir,
                DirnameOfCommonPrefix(cwd, template.dir))

\* the literal references of a template, in the order of the text
References(text) ==
    LET includes == SelectSeq(text, LAMBDA item : item.kind = "include")
    IN [i \in 1..Len(includes) |-> includes[i].ref]

\* realpath(tpl) of find_referenced_templates: the first search path wins
RECURSIVE RealPath(_, _, _)
RealPath(files, search_path, tpl) ==
    IF search_path = << >> THEN NoPath
    ELSE IF F(search_path[1], tpl) \in files THEN F(search_path[1], tpl)
    ELSE RealPath(files, Tail(search_path), tpl)

FindReferencedTemplates(files, template, search_path) ==
    LET referenced_templates == References(ReadText(template))
    IN [i \in 1..Len(referenced_templates) |->
            RealPath(files, search_path, referenced_templates[i])]

\* a load_jinja that knows no pedantic mode
UndefinedOfMode_NoStrict(mode) ==
    CASE mode = "debug" -> "DebugUndefined"
      [] OTHER          -> "Undefined"

\* a load_jinja that knows no debug mode
UndefinedOfMode_NoDebug(mode) ==
    CASE mode = "pedantic" -> "StrictUndefined"
      [] OTHER             -> "Undefined"

\* load_jinja: the undefined class of a mode
UndefinedOfMode(mode) ==
    CASE mode = "pedantic" -> "StrictUndefined"
      [] mode = "debug"    -> "DebugUndefined"
      [] OTHER             -> "Undefined"

LoadJinja(path, tests, filters, classes, mode, defaults) ==
    [ searchpath |-> path, tests |-> tests, filters |-> filters,
      extensions |-> classes, undefined |-> UndefinedOfMode(mode),
      variable_start_string |-> defaults["VARIABLE_START_STRING"],
      variable_end_string |-> defaults["VARIABLE_END_STRING"],
      block_start_string |-> defaults["BLOCK_START_STRING"],
      block_end_string |-> defaults["BLOCK_END_STRING"],
      comment_start_string |-> defaults["COMMENT_START_STRING"],
      comment_end_string |-> defaults["COMMENT_END_STRING"] ]

\* what a parser returns for a data file it is able to read
Parsed(parser, file) ==
    IF parser.file = YashaParsers THEN DataOf(file)
    ELSE Update(DataOf(file),
                [parsed_by |-> Scalar(parser.name)])

\* parse_variable_file(file): the parser is called with the path itself
ParseVariableFile(parsers, file) ==
    LET file_extension == Suffix(file.name)
    IN IF file_extension \notin DOMAIN parsers
       THEN [ raised |-> "ClickException",
              message |-> <<"Unkown variable file extension '", file_extension, "'">>,
              value |-> EmptyDict ]
       ELSE IF ReadsItsArgument(parsers[file_extension])
       THEN \* a Path has no read(): AttributeError, caught
            [ raised |-> "", message |-> << >>, value |-> EmptyDict ]
       ELSE [ raised |-> "", message |-> << >>,
              value |-> Parsed(parsers[file_extension], file) ]

\* the dictionaries of the process, as one record
Registries(tests, filters, parsers, classes, defaults) ==
    [ TESTS |-> tests, FILTERS |-> filters, PARSERS |-> parsers,
      CLASSES |-> classes, DEFAULTS |-> defaults ]

\* the functions prefix + X of a module, registered under X
Named(file, prefix, names) == [x \in names |-> Function(file, prefix, x)]

\* load_extensions(file): updates the dictionaries of the process
LoadExtensions(G, file, cwd) ==
    LET module == ModuleOf(file)
        tests == Named(file, "test_", module.test_)
        filters == Named(file, "filter_", module.filter_)
        parsers == Named(file, "parse_", module.parse_)
    IN IF module.error = "name"
       THEN [ raised |-> "ClickException",
              message |-> <<"Unable to load extensions, ", module.msg>>,
              G |-> G ]
       ELSE IF module.error = "syntax"
       THEN [ raised |-> "ClickException",
              message |-> <<"Unable to load extensions\n", UpperFirst(module.msg), " (">>
                            \o RelPathText(RelPath(file, cwd))
                            \o <<", line ", module.lineno, ")">>,
              G |-> G ]
       ELSE [ raised |-> "", message |-> << >>,
              G |-> Registries(
                  Update(G.TESTS, IF module.bulkTests.present
                                  THEN module.bulkTests.dict ELSE tests),
                  Update(G.FILTERS, IF module.bulkFilters.present
                                    THEN module.bulkFilters.dict ELSE filters),
                  Update(G.PARSERS, IF module.bulkParsers.present
                                    THEN module.bulkParsers.dict ELSE parsers),
                  G.CLASSES \o (IF module.bulkClasses # << >>
                                THEN module.bulkClasses ELSE module.classes),
                  Update(G.DEFAULTS, module.settings)) ]

(***************************************************************************)
(* Rendering (jinja2)                                                      *)
(***************************************************************************)
Rendered(out) == [raised |-> "", message |-> << >>, out |-> out]

\* what {{ name }} prints
RenderVar(name, context, undefined) ==
    IF name \in DOMAIN context THEN Rendered(Str(context[name]))
    ELSE CASE undefined = "StrictUndefined" ->
                [ raised |-> "UndefinedError",
                  message |-> << "'", name, "' is undefined" >>,
                  out |-> << >> ]
           [] undefined = "DebugUndefined" ->
                Rendered(<< "{{ ", name, " }}" >>)
           [] OTHER -> Rendered(<< "" >>)

\* the templates are written with {{ }} and {% %}: an environment with other
\* delimiters reads them as text
ReadsVariables(env) ==
    env.variable_start_string = "{{" /\ env.variable_end_string = "}}"
ReadsBlocks(env) ==
    env.block_start_string = "{%" /\ env.block_end_string = "%}"

RECURSIVE Render(_, _, _, _)
Render(text, context, env, files) ==
    IF text = << >> THEN Rendered(<< >>)
    ELSE LET item == Head(text)
             first ==
                 CASE item.kind = "text" -> Rendered(<< item.s >>)
                   [] item.kind = "var" ->
                        IF ReadsVariables(env)
                        THEN RenderVar(item.s, context, env.undefined)
                        ELSE Rendered(<< "{{ ", item.s, " }}" >>)
                   [] item.kind = "filter" ->
                        IF ~ReadsVariables(env)
                        THEN Rendered(<< "{{ 'x' | ", item.s, " }}" >>)
                        ELSE IF item.s \in DOMAIN env.filters
                        THEN Rendered(<< item.s, "('x')" >>)
                        ELSE [ raised |-> "TemplateAssertionError",
                               message |-> << "No filter named '", item.s, "'." >>,
                               out |-> << >> ]
                   [] OTHER ->
                        IF ~ReadsBlocks(env)
                        THEN Rendered(<< "{% include '" >> \o NameText(item.ref)
                                        \o << "' %}" >>)
                        ELSE LET found == RealPath(files, env.searchpath, item.ref)
                             IN IF found = NoPath
                                THEN [ raised |-> "TemplateNotFound",
                                       message |-> NameText(item.ref), out |-> << >> ]
                                ELSE Render(ReadText(found), context, env, files)
         IN IF first.raised # "" THEN first
            ELSE LET rest == Render(Tail(text), context, env, files)
                 IN IF rest.raised # "" THEN rest
                    ELSE Rendered(first.out \o rest.out)

(***************************************************************************)
(* yasha/cli.py                                                            *)
(***************************************************************************)
NoFile == [given |-> FALSE, path |-> NoPath]
File(path) == [given |-> TRUE, path |-> path]

KnownEncodings == {"utf-8", "latin-1"}

\* An argument is the sequence of its words, "--", "=", "," and the quote
\* characters being words of their own: --var="foo,bar" is
\* << "--", "var", "=", "\"", "foo", ",", "bar", "\"" >>.

\* the segments of a text between its commas; a quote of the set `quotes' at
\* the start of a segment opens a quoted part, within which a comma does not
\* separate (csv.reader with quotechar '"', and the Python tokenizer)
RECURSIVE Segments(_, _, _, _)
Segments(text, quotes, open, cur) ==
    IF text = << >> THEN << cur >>
    ELSE LET c == Head(text)
             rest == Tail(text)
         IN CASE open # "" ->
                   Segments(rest, quotes, IF c = open THEN "" ELSE open, Append(cur, c))
              [] open = "" /\ c \in quotes /\ cur = << >> ->
                   Segments(rest, quotes, c, << c >>)
              [] open = "" /\ c = "," ->
                   << cur >> \o Segments(rest, quotes, "", << >>)
              [] OTHER -> Segments(rest, quotes, "", Append(cur, c))

\* csv.reader([val], delimiter=',', quotechar='"'): the fields of the one row,
\* a field that starts with a double quote losing that quote and its closing
\* one; the empty line has no field
CsvFields(text) ==
    LET field(seg) ==
            IF seg = << >> \/ seg[1] # "\"" THEN seg
            ELSE LET body == Tail(seg)
                     closing == { i \in 1..Len(body) : body[i] = "\"" }
                 IN IF closing = {} THEN body
                    ELSE LET j == CHOOSE i \in closing : \A k \in closing : i <= k
                         IN SubSeq(body, 1, j - 1) \o SubSeq(body, j + 1, Len(body))
        segs == Segments(text, {"\""}, "", << >>)
    IN IF text = << >> THEN << >> ELSE [i \in 1..Len(segs) |-> field(segs[i])]

\* ast.literal_eval of a text: a number, a boolean, a quoted string, a
\* tuple of these written with commas, or a list of these in brackets; any
\* other text raises ValueError or SyntaxError (ok is FALSE)
LiteralEval(text) ==
    LET failed == [ok |-> FALSE, value |-> Py("str", text, << >>)]
        lit(value) == [ok |-> TRUE, value |-> value]
        atom(seg) ==
            CASE Len(seg) = 1 /\ seg[1] \in {"1", "2"} -> lit(Py("number", seg, << >>))
              [] Len(seg) = 1 /\ seg[1] \in {"True", "False"} -> lit(Py("bool", seg, << >>))
              [] /\ Len(seg) >= 2
                 /\ seg[1] \in {"'", "\""}
                 /\ seg[Len(seg)] = seg[1]
                 /\ \A i \in 2..(Len(seg) - 1) : seg[i] # seg[1] ->
                   lit(Py("str", SubSeq(seg, 2, Len(seg) - 1), << >>))
              [] OTHER -> failed
        bracketed == Len(text) >= 2 /\ text[1] = "[" /\ text[Len(text)] = "]"
        inner == IF bracketed THEN SubSeq(text, 2, Len(text) - 1) ELSE text
        segs == Segments(inner, {"'", "\""}, "", << >>)
        atoms == [i \in 1..Len(segs) |-> atom(segs[i])]
        items == [i \in 1..Len(segs) |-> atoms[i].value]
    IN CASE text = << >> -> failed
         [] bracketed /\ inner = << >> -> lit(Py("list", << >>, << >>))
         [] \E i \in 1..Len(segs) : ~atoms[i].ok -> failed
         [] bracketed -> lit(Py("list", << >>, items))
         [] Len(segs) = 1 -> atoms[1]
         [] OTHER -> lit(Py("tuple", << >>, items))

\* lines 65-76: the literal when val parses as one (literal_eval of what is
\* not a string raises ValueError), and then, for a string, its csv fields
CliValue(val) ==
    LET literal == IF val.tag = "str" THEN LiteralEval(val.text)
                   ELSE [ok |-> FALSE, value |-> val]
        value == IF literal.ok THEN literal.value ELSE val
        fields == CsvFields(value.text)
    IN IF value.tag # "str" THEN value
       ELSE IF Len(fields) = 1 THEN Py("str", fields[1], << >>)
       ELSE Py("list", << >>, [i \in 1..Len(fields) |-> Py("str", fields[i], << >>)])

\* arg[:2] == '--'
Dashed(arg) == arg # << >> /\ arg[1] = "--"

\* lines 55-64: opt and val after the argument i, which starts with '--';
\* they keep what an earlier argument left when the next argument is '--'
CliAssigned(args, i, s) ==
    LET arg == args[i]
        eqs == { j \in 1..Len(arg) : arg[j] = "=" }
        name(words) == IF words = << >> THEN "" ELSE words[1]
    IN IF eqs # {}
       THEN LET j == CHOOSE e \in eqs : \A k \in eqs : e <= k
            IN [s EXCEPT !.bound = TRUE,
                         !.opt = name(SubSeq(arg, 2, j - 1)),
                         !.val = Py("str", SubSeq(arg, j + 1, Len(arg)), << >>)]
       ELSE IF args[i + 1] # << "--" >>
            THEN [s EXCEPT !.bound = TRUE,
                           !.opt = name(Tail(arg)),
                           !.val = Py("str", args[i + 1], << >>)]
            ELSE s

\* lines 52-77: the loop from the argument i on
RECURSIVE CliVariablesFrom(_, _, _)
CliVariablesFrom(args, i, s) ==
    IF i > Len(args) THEN s
    ELSE IF ~Dashed(args[i]) THEN CliVariablesFrom(args, i + 1, s)
    ELSE IF (\A j \in 1..Len(args[i]) : args[i][j] # "=") /\ i = Len(args)
         THEN s
    ELSE LET t == CliAssigned(args, i, s)
             val == CliValue(t.val)
         IN IF ~t.bound THEN [s EXCEPT !.raised = "UnboundLocalError"]
            ELSE CliVariablesFrom(args, i + 1,
                     [t EXCEPT !.val = val,
                               !.variables = Update(@, [k \in {t.opt} |-> val])])

\* parse_cli_variables: the variables bound by the arguments, or the error
\* raised by reading opt and val before any argument has assigned them
ParseCliVariables(args) ==
    LET s == CliVariablesFrom(args, 1,
                 [ variables |-> EmptyDict, bound |-> FALSE, opt |-> "",
                   val |-> Py("str", << >>, << >>), raised |-> "" ])
    IN [raised |-> s.raised, variables |-> s.variables]

\* the first companion whose name ends with one of the extensions
FirstEndingWith(companions, extensions) ==
    LET matching == SelectSeq(companions,
                        LAMBDA p : \E e \in extensions : EndsWith(p.name, e))
    IN IF matching = << >> THEN NoFile ELSE File(matching[1])

\* lines 130-132
CliCompanions(args, files, dirs) ==
    IF ~args.extensions.given \/ args.variables = << >>
    THEN FindTemplateCompanion(files, dirs, args.template, args.cwd)
    ELSE << >>

\* lines 134-138: the extension file of the invocation
CliExtensions(args, files, dirs) ==
    IF ~args.extensions.given /\ ~args.no_extension_file
    THEN FirstEndingWith(CliCompanions(args, files, dirs), EXTENSION_FILE_FORMATS)
    ELSE args.extensions

\* lines 143-147: the variable files of the invocation
CliVariables(args, files, dirs, parsers) ==
    LET found == FirstEndingWith(CliCompanions(args, files, dirs), DOMAIN parsers)
    IN IF args.variables = << >> /\ ~args.no_variable_file /\ found.given
       THEN << found.path >>
       ELSE args.variables

\* lines 149-154: the output file
CliOutput(args) ==
    IF args.output.given THEN args.output.path
    ELSE F(args.template.dir, SplitExtRoot(args.template.name))

\* dependencies with the extension file put before the variable files
CliDeps_ExtensionFirst(args, files, variables, extensions) ==
    << args.template >>
        \o (IF extensions.given THEN << extensions.path >> ELSE << >>)
        \o variables
        \o FindReferencedTemplates(files, args.template,
                                   << args.template.dir >> \o args.include_path)

\* lines 157-163: the dependencies, before os.path.relpath
CliDeps(args, files, variables, extensions) ==
    << args.template >>
        \o variables
        \o (IF extensions.given THEN << extensions.path >> ELSE << >>)
        \o FindReferencedTemplates(files, args.template,
                                   << args.template.dir >> \o args.include_path)

\* line 165: the dependency line
DepsLine(args, output, deps) ==
    [ target |-> RelPath(output, args.cwd), separator |-> ": ",
      deps |-> [i \in 1..Len(deps) |-> RelPath(deps[i], args.cwd)] ]

\* lines 194-197: the context
RECURSIVE CliContext(_, _)
CliContext(variables, parsers) ==
    IF variables = << >>
    THEN [raised |-> "", message |-> << >>, value |-> EmptyDict]
    ELSE LET before == CliContext(Front(variables), parsers)
             parsed == ParseVariableFile(parsers, Last(variables))
         IN IF before.raised # "" THEN before
            ELSE IF parsed.raised # "" THEN parsed
            ELSE [ raised |-> "", message |-> << >>,
                   value |-> Update(before.value, parsed.value) ]

NotWritten == [written |-> FALSE, path |-> NoPath, content |-> << >>, end |-> ""]
Written(path, content, end) ==
    [written |-> TRUE, path |-> path, content |-> content, end |-> end]

\* the exit code of the process: 1 for a ClickException and for a traceback
ExitCode(status) == IF status = "ok" THEN 0 ELSE 1

\* what an invocation leaves behind
Outcome(status, message, stage) ==
    [ status |-> status, exit |-> ExitCode(status),
      message |-> message, stage |-> stage,
      stdout |-> << >>, dfile |-> NotWritten, outfile |-> NotWritten,
      context |-> EmptyDict, extensions |-> NoFile, variables |-> << >>,
      tests |-> EmptyDict, filters |-> EmptyDict, parsers |-> EmptyDict,
      classes |-> << >>, delimiters |-> EmptyDict ]

\* lines 199-205: the rendered template goes to the output, an undefined
\* variable becomes a ClickException
CliWrite(written, output, rendered) ==
    IF rendered.raised = "UndefinedError"
    THEN Update(Outcome("ClickException", <<"Variable ">> \o rendered.message,
                        "render"),
                written)
    ELSE IF rendered.raised # ""
    THEN Update(Outcome("Exception", <<rendered.raised>>, "render"), written)
    ELSE Update(Outcome("ok", << >>, "render"),
                Update(written, [outfile |-> Written(output, rendered.out, "")]))

\* lines 174-197: the environment is loaded and the context built
CliRender(args, files, G1, seen, output, dfile, context) ==
    LET parsed == ParseCliVariables(args.template_variables)
        full == Update(context.value, parsed.variables)
        jinja == LoadJinja(<< args.template.dir >> \o args.include_path,
                           G1.TESTS, G1.FILTERS, G1.CLASSES, args.mode, G1.DEFAULTS)
    IN IF context.raised # ""
       THEN Update(Outcome(context.raised, context.message, "variables"),
                   Update(seen, [dfile |-> dfile]))
       ELSE IF parsed.raised # ""
       THEN Update(Outcome(parsed.raised, << >>, "variables"),
                   Update(seen, [dfile |-> dfile]))
       ELSE CliWrite(Update(seen, [dfile |-> dfile, context |-> full]), output,
                     Render(ReadText(args.template), full, jinja, files))

\* a command line whose -M prints the line and renders all the same
CliEmit_RendersWithM(args, files, G1, seen, output, deps, context) ==
    LET line == DepsLine(args, output, deps)
    IN IF (args.m \/ args.md) /\ \E i \in 1..Len(deps) : deps[i] = NoPath
       THEN Update(Outcome("Exception", <<"relpath">>, "dependencies"), seen)
       ELSE CliRender(args, files, G1,
                      Update(seen, [stdout |-> IF args.m THEN << line >> ELSE << >>]),
                      output,
                      IF args.md
                      THEN Written(F(output.dir, output.name \o <<"d">>), line, "\n")
                      ELSE NotWritten,
                      context)

\* lines 156-172: the dependency line is printed or written, then the rest
CliEmit(args, files, G1, seen, output, deps, context) ==
    LET line == DepsLine(args, output, deps)
        dfile == IF args.md
                 THEN Written(F(output.dir, output.name \o <<"d">>), line, "\n")
                 ELSE NotWritten
    IN IF (args.m \/ args.md) /\ \E i \in 1..Len(deps) : deps[i] = NoPath
       THEN \* os.path.relpath(None)
            Update(Outcome("Exception", <<"relpath">>, "dependencies"), seen)
       ELSE IF args.m
       THEN Update(Outcome("ok", << >>, "dependencies"),
                   Update(seen, [stdout |-> << line >>]))
       ELSE CliRender(args, files, G1, seen, output, dfile, context)

\* lines 143-154 and what lines 175-184 take from the dictionaries
CliLoaded(args, files, G1, extensions, variables) ==
    CliEmit(args, files, G1,
            [ extensions |-> extensions, variables |-> variables,
              tests |-> G1.TESTS, filters |-> G1.FILTERS,
              parsers |-> G1.PARSERS, classes |-> G1.CLASSES,
              delimiters |-> G1.DEFAULTS ],
            CliOutput(args),
            CliDeps(args, files, variables, extensions),
            CliContext(variables, G1.PARSERS))

\* a command line that goes on without the extensions when loading fails
CliLoad_IgnoresError(args, G, files, dirs, extensions, loaded) ==
    IF extensions.given /\ extensions.path \notin files
    THEN [ G |-> G, out |-> Outcome("Exception", <<"IsADirectoryError">>, "extensions") ]
    ELSE [ G |-> loaded.G,
           out |-> CliLoaded(args, files, loaded.G, extensions,
                             CliVariables(args, files, dirs, loaded.G.PARSERS)) ]

\* lines 140-141: util.load_extensions(extensions)
CliLoad(args, G, files, dirs, extensions, loaded) ==
    IF extensions.given /\ extensions.path \notin files
    THEN \* click.open_file of a directory
         [ G |-> G, out |-> Outcome("Exception", <<"IsADirectoryError">>, "extensions") ]
    ELSE IF loaded.raised # ""
    THEN [ G |-> loaded.G,
           out |-> Update(Outcome(loaded.raised, loaded.message, "extensions"),
                          [extensions |-> extensions]) ]
    ELSE [ G |-> loaded.G,
           out |-> CliLoaded(args, files, loaded.G, extensions,
                             CliVariables(args, files, dirs, loaded.G.PARSERS)) ]

\* lines 130-138: the extension file of the invocation, given or discovered
CliWith(args, G, files, dirs, extensions) ==
    CliLoad(args, G, files, dirs, extensions,
            IF extensions.given THEN LoadExtensions(G, extensions.path, args.cwd)
            ELSE [raised |-> "", message |-> << >>, G |-> G])

\* cli(): the dictionaries of the process after the invocation and what the
\* invocation leaves behind
Cli(args, G, files, dirs) ==
    IF args.encoding \notin KnownEncodings
    THEN [ G |-> G,
           out |-> Outcome("ClickException",
                           <<"Unrecognized encoding name '", args.encoding, "'">>,
                           "encoding") ]
    ELSE CliWith(args, G, files, dirs, CliExtensions(args, files, dirs))

(***************************************************************************)
(* yasha/main.py: the Yasha class                                          *)
(*                                                                         *)
(* Python objects are kept in a heap: heap.objs is the list of the         *)
(* dictionaries and lists that exist, heap.envs the list of the jinja      *)
(* environments, and a reference is an index into the list.  An            *)
(* environment holds references to its globals, filters, tests and         *)
(* extensions dictionaries and to the search path of its loader, and its   *)
(* own attributes.                                                         *)
(***************************************************************************)
NoSession == [made |-> FALSE]

\* the delimiters of jinja2.Environment()
EnvironmentDefaults ==
    [ variable_start_string |-> "{{", variable_end_string |-> "}}",
      block_start_string |-> "{%", block_end_string |-> "%}",
      comment_start_string |-> "{#", comment_end_string |-> "#}" ]

\* name.lower() of the configuration directives
Lower(name) ==
    CASE name = "VARIABLE_START_STRING" -> "variable_start_string"
      [] name = "VARIABLE_END_STRING"   -> "variable_end_string"
      [] name = "BLOCK_START_STRING"    -> "block_start_string"
      [] name = "BLOCK_END_STRING"      -> "block_end_string"
      [] name = "COMMENT_START_STRING"  -> "comment_start_string"
      [] name = "COMMENT_END_STRING"    -> "comment_end_string"
      [] OTHER -> name

Range(seq) == { seq[i] : i \in 1..Len(seq) }

\* env.extensions after add_extension of each class
AddExtensions(extensions, classes) ==
    Update(extensions, [c \in Range(classes) |-> c])

\* a template argument: the path of a file or the text itself
PathTemplate(path) == [kind |-> "path", path |-> path, text |-> << >>]
StrTemplate(text)  == [kind |-> "str", path |-> NoPath, text |-> text]

\* the orders in which a Python set of paths can be iterated
Orderings(S) ==
    { o \in [1..Cardinality(S) -> S] :
        \A i, j \in 1..Cardinality(S) : o[i] = o[j] => i = j }

\* a merge that drops a key when a later file gives it again
RECURSIVE LoadDataFiles_Toggle(_, _, _)
LoadDataFiles_Toggle(self_parsers, files, parsers) ==
    IF files = << >>
    THEN [raised |-> "", message |-> << >>, value |-> EmptyDict]
    ELSE LET data == LoadDataFiles_Toggle(self_parsers, Front(files), parsers)
             file == Last(files)
             ext == Suffix(file.name)
         IN IF data.raised # "" THEN data
            ELSE IF ext \notin DOMAIN self_parsers
            THEN [ raised |-> "Exception",
                   message |-> <<"No parser found for data file ">>
                                  \o NameText(file.name),
                   value |-> EmptyDict ]
            ELSE LET parsed == Parsed(self_parsers[ext], file)
                     both == DOMAIN data.value \cap DOMAIN parsed
                 IN [ raised |-> "", message |-> << >>,
                      value |-> [k \in (DOMAIN data.value \cup DOMAIN parsed) \ both |->
                                    IF k \in DOMAIN parsed THEN parsed[k]
                                    ELSE data.value[k]] ]

\* _load_data_files(files, parsers): the parser is the one of self.parsers
RECURSIVE LoadDataFiles(_, _, _)
LoadDataFiles(self_parsers, files, parsers) ==
    IF files = << >>
    THEN [raised |-> "", message |-> << >>, value |-> EmptyDict]
    ELSE LET data == LoadDataFiles(self_parsers, Front(files), parsers)
             file == Last(files)
             ext == Suffix(file.name)
         IN IF data.raised # "" THEN data
            ELSE IF ext \notin DOMAIN self_parsers
            THEN [ raised |-> "Exception",
                   message |-> <<"No parser found for data file ">>
                                  \o NameText(file.name),
                   value |-> EmptyDict ]
            ELSE [ raised |-> "", message |-> << >>,
                   value |-> Update(data.value, Parsed(self_parsers[ext], file)) ]

\* a table after the items of a module: the functions and the bulk
\* dictionary are applied in the order the module defines them
Registered(table, named, bulk, bulk_first) ==
    IF bulk_first THEN Update(Update(table, bulk), named)
    ELSE Update(Update(table, named), bulk)

\* _load_extensions_file(extensions_file, env, parsers); 0 stands for None
LoadExtensionsFile(M, self, extensions_file, env_arg, parsers_arg) ==
    LET env == IF env_arg = 0 THEN self.env ELSE env_arg
        parsers == IF parsers_arg = 0 THEN self.parsers
                   ELSE IF M.objs[parsers_arg] = EmptyDict THEN self.parsers
                   ELSE parsers_arg
        module == ModuleOf(extensions_file)
        e == M.envs[env]
        objs1 == [M.objs EXCEPT ![e.tests] =
                     Registered(@, Named(extensions_file, "test_", module.test_),
                                module.bulkTests.dict, "tests" \in module.bulkFirst)]
        objs2 == [objs1 EXCEPT ![e.filters] =
                     Registered(@, Named(extensions_file, "filter_", module.filter_),
                                module.bulkFilters.dict, "filters" \in module.bulkFirst)]
        objs3 == [objs2 EXCEPT ![parsers] =
                     Registered(@, Named(extensions_file, "parse_", module.parse_),
                                module.bulkParsers.dict, "parsers" \in module.bulkFirst)]
        objs4 == [objs3 EXCEPT ![e.extensions] =
                     AddExtensions(@, module.classes \o module.bulkClasses)]
        settings == [k \in { Lower(n) : n \in DOMAIN module.settings } |->
                        module.settings[CHOOSE n \in DOMAIN module.settings :
                                            Lower(n) = k]]
    IN IF module.error # "none"
       THEN [ raised |-> IF module.error = "syntax" THEN "SyntaxError"
                         ELSE "NameError",
              message |-> NameText(extensions_file.name), M |-> M ]
       ELSE [ raised |-> "", message |-> << >>,
              M |-> [ envs |-> [M.envs EXCEPT ![env].attrs = Update(@, settings)],
                      objs |-> objs4 ] ]

\* for ext in files: _load_extensions_file(ext, env, parsers)
RECURSIVE LoadExtensionsFiles(_, _, _, _, _)
LoadExtensionsFiles(M, self, files, env_arg, parsers_arg) ==
    IF files = << >> THEN [raised |-> "", message |-> << >>, M |-> M]
    ELSE LET loaded == LoadExtensionsFile(M, self, Head(files), env_arg, parsers_arg)
         IN IF loaded.raised # "" THEN loaded
            ELSE LoadExtensionsFiles(loaded.M, self, Tail(files), env_arg, parsers_arg)

\* Yasha.__init__: self.parsers is object 1, the globals, filters, tests and
\* extensions of self.env objects 2 to 5 and the search path object 6
YashaInit(G, p) ==
    LET self == [ made |-> TRUE, root |-> p.root_dir, parsers |-> 1,
                  template_lookup_paths |-> p.template_lookup_paths,
                  yasha_extensions_files |-> p.yasha_extensions_files,
                  variable_files |-> p.variable_files,
                  encoding |-> p.encoding, env |-> 1 ]
        env == [ globals |-> 2, filters |-> 3, tests |-> 4, extensions |-> 5,
                 loader |-> 0,
                 undefined |-> CASE p.mode = "pedantic" -> "StrictUndefined"
                                 [] p.mode = "debug"    -> "DebugUndefined"
                                 [] OTHER               -> "Undefined",
                 attrs |-> Update(EnvironmentDefaults, p.jinja_configs) ]
        M0 == [ envs |-> << env >>,
                objs |-> << G.PARSERS, EmptyDict, Update(EmptyDict, G.FILTERS),
                            Update(EmptyDict, G.TESTS),
                            AddExtensions(EmptyDict, G.CLASSES) >> ]
        loaded == LoadExtensionsFiles(M0, self, p.yasha_extensions_files, 0, 0)
        M1 == [ envs |-> [loaded.M.envs EXCEPT ![1].loader = 6],
                objs |-> Append(loaded.M.objs, p.template_lookup_paths) ]
        data == LoadDataFiles(M1.objs[self.parsers], p.variable_files, 0)
        M2 == [M1 EXCEPT !.objs[2] = Update(Update(@, data.value), p.inline_variables)]
    IN IF loaded.raised # ""
       THEN [raised |-> loaded.raised, message |-> loaded.message, self |-> NoSession, M |-> M0]
       ELSE IF data.raised # ""
       THEN [raised |-> data.raised, message |-> data.message, self |-> NoSession, M |-> M0]
       ELSE [raised |-> "", message |-> << >>, self |-> self, M |-> M2]

\* an overlay that keeps the dictionaries and the loader of the base
GetEnvForTemplate_Shared(M, self, template) ==
    IF template.kind = "str" THEN [M |-> M, env |-> self.env]
    ELSE LET base == M.envs[self.env]
             n == Len(M.objs)
         IN [ M |-> [ envs |-> Append(M.envs, [base EXCEPT !.extensions = n + 1]),
                      objs |-> Append(M.objs, M.objs[base.extensions]) ],
              env |-> Len(M.envs) + 1 ]

\* _get_env_for_template: the base environment for a string, and for a file
\* an overlay with its own globals, filters, tests and search path
GetEnvForTemplate(M, self, template) ==
    IF template.kind = "str" THEN [M |-> M, env |-> self.env]
    ELSE LET base == M.envs[self.env]
             n == Len(M.objs)
             env == [base EXCEPT !.extensions = n + 1, !.globals = n + 2,
                                 !.filters = n + 3, !.tests = n + 4,
                                 !.loader = n + 5]
         IN [ M |-> [ envs |-> Append(M.envs, env),
                      objs |-> M.objs \o << M.objs[base.extensions],
                                            M.objs[base.globals],
                                            M.objs[base.filters],
                                            M.objs[base.tests],
                                            M.objs[base.loader] >> ],
              env |-> Len(M.envs) + 1 ]

\* the characters of the keys given as jinja_env_overrides
Chars(key) ==
    CASE key = "ab" -> << "a", "b" >>
      [] key = "variable_start_string" ->
            << "v","a","r","i","a","b","l","e","_","s","t","a","r","t","_",
               "s","t","r","i","n","g" >>
      [] OTHER -> << >>

\* for k, v in jinja_env_overrides: setattr(env, k, v), for a dictionary of
\* at most one key: the key itself is unpacked
SetOverrides(M, env, jinja_env_overrides) ==
    IF DOMAIN jinja_env_overrides = {}
    THEN [raised |-> "", message |-> << >>, M |-> M]
    ELSE LET key == CHOOSE k \in DOMAIN jinja_env_overrides : TRUE
             kv == Chars(key)
         IN IF Len(kv) # 2
            THEN [ raised |-> "ValueError",
                   message |-> IF Len(kv) > 2
                               THEN << "too many values to unpack (expected 2)" >>
                               ELSE << "not enough values to unpack (expected 2, got ",
                                       IF Len(kv) = 1 THEN "1" ELSE "0", ")" >>,
                   M |-> M ]
            ELSE [ raised |-> "", message |-> << >>,
                   M |-> [M EXCEPT !.envs[env].attrs =
                             Update(@, [k \in { kv[1] } |-> kv[2]])] ]

\* what jinja reads of an environment when it renders
JinjaView(M, env) ==
    LET e == M.envs[env]
    IN [ searchpath |-> M.objs[e.loader], tests |-> M.objs[e.tests],
         filters |-> M.objs[e.filters], extensions |-> M.objs[e.extensions],
         undefined |-> e.undefined,
         variable_start_string |-> e.attrs["variable_start_string"],
         variable_end_string |-> e.attrs["variable_end_string"],
         block_start_string |-> e.attrs["block_start_string"],
         block_end_string |-> e.attrs["block_end_string"],
         comment_start_string |-> e.attrs["comment_start_string"],
         comment_end_string |-> e.attrs["comment_end_string"] ]

\* the arguments of render_template
RenderArgs(template, find_data, find_extension, overrides, output) ==
    [ template |-> template, find_data_files |-> find_data,
      find_extension_files |-> find_extension,
      jinja_env_overrides |-> overrides, output |-> output ]

\* what a call on the instance gives: the exception raised, the value
\* returned, what went to the output file, the context of the render, the
\* companion files loaded
Gave(method, a, raised, message) ==
    [ call |-> method, args |-> a, raised |-> raised, message |-> message,
      returned |-> << >>, output |-> NotWritten, deps |-> << >>,
      context |-> EmptyDict, rendering |-> FALSE, loaded |-> {} ]

\* the sets render_template iterates over
ExtensionCompanions(self, files, a) ==
    IF a.template.kind = "path" /\ a.find_extension_files
    THEN FindTemplateCompanionFiles(files, a.template.path,
                                    EXTENSION_FILE_FORMATS, Some(self.root))
    ELSE {}

DataCompanions(M, self, files, a) ==
    IF a.template.kind = "path" /\ a.find_data_files
    THEN FindTemplateCompanionFiles(files, a.template.path,
                                    DOMAIN M.objs[self.parsers], Some(self.root))
    ELSE {}

\* lines 308-314: the template is rendered with the globals of env, into
\* the output or as the returned text
RenderDone(M4, a, context, files_loaded, rendered) ==
    [ M |-> M4,
      res |-> [Gave("render", a, rendered.raised, rendered.message)
                  EXCEPT !.rendering = TRUE,
                         !.context = context,
                         !.loaded = files_loaded,
                         !.returned = IF a.output THEN << >> ELSE rendered.out,
                         !.output = IF a.output /\ rendered.raised = ""
                                    THEN Written(OutTxt, rendered.out, "")
                                    ELSE NotWritten] ]

\* lines 305-306: the overrides are set on env
RenderText(M3, files, a, env, template_text, files_loaded) ==
    LET set == SetOverrides(M3, env, a.jinja_env_overrides)
        M4 == set.M
        context == M4.objs[M4.envs[env].globals]
    IN IF set.raised # ""
       THEN [ M |-> M3,
              res |-> [Gave("render", a, set.raised, set.message)
                          EXCEPT !.loaded = files_loaded] ]
       ELSE RenderDone(M4, a, context, files_loaded,
                       Render(template_text, context, JinjaView(M4, env), files))

\* lines 293-301: the companion data goes into the globals of env, the
\* directory of the template into its search path
RenderWithData(M2, self, files, a, env, data, files_loaded) ==
    IF data.raised # ""
    THEN [ M |-> M2, res |-> Gave("render", a, data.raised, data.message) ]
    ELSE RenderText([M2 EXCEPT !.objs[M2.envs[env].globals] = Update(@, data.value),
                               !.objs[M2.envs[env].loader] =
                                   Append(@, a.template.path.dir)],
                    files, a, env, ReadText(a.template.path), files_loaded)

\* lines 286-296: the companion extension files are loaded into env and the
\* copy of the parsers, the companion data files with self.parsers
RenderWithExtensions(self, files, a, env, parsers, data_files, loaded, files_loaded) ==
    IF loaded.raised # ""
    THEN [ M |-> loaded.M, res |-> Gave("render", a, loaded.raised, loaded.message) ]
    ELSE RenderWithData(loaded.M, self, files, a, env,
                        LoadDataFiles(loaded.M.objs[self.parsers], data_files, parsers),
                        files_loaded)

\* lines 282-285: a file template gets a copy of self.parsers
RenderWithEnv(self, files, a, extension_files, data_files, got) ==
    IF a.template.kind = "path"
    THEN RenderWithExtensions(
             self, files, a, got.env, Len(got.M.objs) + 1, data_files,
             LoadExtensionsFiles([got.M EXCEPT !.objs = Append(@, got.M.objs[self.parsers])],
                                 self, extension_files, got.env, Len(got.M.objs) + 1),
             Range(extension_files) \cup Range(data_files))
    ELSE RenderText(got.M, files, a, got.env, a.template.text, {})

\* render_template, the two sets of companions iterated in the given orders
RenderTemplate(M, self, files, a, extension_files, data_files) ==
    RenderWithEnv(self, files, a, extension_files, data_files,
                  GetEnvForTemplate(M, self, a.template))

\* the basepath / relative_path of every search path, for every reference
RECURSIVE PartialsOf(_, _)
PartialsOf(referenced_template_partials, searchpath) ==
    IF referenced_template_partials = << >> THEN << >>
    ELSE [i \in 1..Len(searchpath) |->
             F(searchpath[i], Head(referenced_template_partials))]
            \o PartialsOf(Tail(referenced_template_partials), searchpath)

\* get_makefile_dependencies: is_file is not called, so every candidate stays
GetMakefileDependencies(M, self, files, a) ==
    LET got == GetEnvForTemplate(M, self, a.template)
        template == IF a.template.kind = "path" THEN ReadText(a.template.path)
                    ELSE a.template.text
        dependencies == self.variable_files \o self.yasha_extensions_files
        view == JinjaView(got.M, got.env)
        referenced_template_partials ==
            IF ReadsBlocks(view) THEN References(template) ELSE << >>
    IN [ M |-> got.M,
         res |-> [Gave("deps", a, "", << >>) EXCEPT
                     !.deps = dependencies
                                \o PartialsOf(referenced_template_partials,
                                              view.searchpath)] ]

\* the objects of the instance, the ones of a call being garbage
Kept(M) == [envs |-> SubSeq(M.envs, 1, 1), objs |-> SubSeq(M.objs, 1, 6)]

(***************************************************************************)
(* The file system and calls of the finder                                 *)
(***************************************************************************)
InitProcess ==
    /\ TESTS = InitialTESTS
    /\ FILTERS = InitialFILTERS
    /\ PARSERS = InitialPARSERS
    /\ CLASSES = InitialCLASSES
    /\ DEFAULTS = InitialDEFAULTS

NoInv == [active |-> FALSE]

NoHeap == [envs |-> << >>, objs |-> << >>]
NoResult == [call |-> "none"]
NoLog == [calls |-> 0, loaded |-> {}]

InitNoSession ==
    /\ yasha = NoSession
    /\ heap = NoHeap
    /\ constructed = NoSession
    /\ result = NoResult
    /\ log = NoLog

InitFinder ==
    /\ fsFiles = {}
    /\ fsDirs = {}
    /\ call = NoCall
    /\ returned = {}
    /\ InitProcess
    /\ invocations = 0
    /\ inv = NoInv
    /\ InitNoSession

Touch(p) ==
    /\ Cardinality(fsFiles \cup fsDirs) < MaxEntries
    /\ p \notin fsFiles \cup fsDirs
    /\ fsFiles' = fsFiles \cup {p}
    /\ call' = NoCall
    /\ returned' = {}
    /\ UNCHANGED <<fsDirs, processVars, cliVars, sessionVars>>

Mkdir(p) ==
    /\ Cardinality(fsFiles \cup fsDirs) < MaxEntries
    /\ p \notin fsFiles \cup fsDirs
    /\ fsDirs' = fsDirs \cup {p}
    /\ call' = NoCall
    /\ returned' = {}
    /\ UNCHANGED <<fsFiles, processVars, cliVars, sessionVars>>

Find(template, extensions, recurse_up_to) ==
    /\ call' = [made |-> TRUE, template |-> template,
                extensions |-> extensions, recurse_up_to |-> recurse_up_to]
    /\ returned' = FindTemplateCompanionFiles(fsFiles, template, extensions,
                                              recurse_up_to)
    /\ UNCHANGED <<fsVars, processVars, cliVars, sessionVars>>

NextFinder ==
    \/ \E p \in FilePaths : Touch(p)
    \/ \E p \in DirEntryPaths : Mkdir(p)
    \/ \E t \in Templates, E \in ExtensionSets, r \in Roots : Find(t, E, r)

SpecFinder == InitFinder /\ [][NextFinder]_vars

(***************************************************************************)
(* Command-line invocations of one process                                 *)
(***************************************************************************)
CommonFiles ==
    { FooTemplate, ValueTemplate, AYaml, BToml, DataJson, DataIni, ExtPy, OrderPy }

CliDisks ==
    { CommonFiles \cup { HeaderInc, FooCJson, SubFooJson, TopFooJson, FooExt,
                         ChainTemplate, MidInc },
      CommonFiles \cup { HeaderInc, SubFooJson, TopFooJson },
      CommonFiles }

CliArgs ==
    [ template : { FooTemplate, ValueTemplate },
      variables : { << >>, << AYaml, BToml >>, << DataJson, DataIni >> },
      extensions : { NoFile, File(ExtPy) },
      no_variable_file : BOOLEAN,
      no_extension_file : BOOLEAN,
      mode : { "none", "pedantic", "debug" },
      m : BOOLEAN,
      md : BOOLEAN,
      output : { NoFile, File(OutTxt) },
      include_path : { << >> },
      encoding : { "utf-8" },
      template_variables : { << >>, << << "--", "foo", "=", "inline" >> >> },
      cwd : { <<"w">>, <<"w","sub">> } ]

InitCli ==
    /\ fsFiles \in CliDisks
    /\ fsDirs = {}
    /\ call = NoCall
    /\ returned = {}
    /\ InitProcess
    /\ invocations = 0
    /\ inv = NoInv
    /\ InitNoSession

\* one run of cli() in the process
Invoke(args) ==
    /\ ~inv.active
    /\ invocations < MaxInvocations
    /\ args.template \in fsFiles
    /\ \A i \in 1..Len(args.variables) : args.variables[i] \in fsFiles
    /\ args.extensions.given => args.extensions.path \in fsFiles
    /\ \E run \in { Cli(args, Registries(TESTS, FILTERS, PARSERS, CLASSES, DEFAULTS),
                         fsFiles, fsDirs) } :
          /\ inv' = [active |-> TRUE, args |-> args,
                     before |-> Registries(TESTS, FILTERS, PARSERS, CLASSES, DEFAULTS),
                     out |-> run.out]
          /\ TESTS' = run.G.TESTS
          /\ FILTERS' = run.G.FILTERS
          /\ PARSERS' = run.G.PARSERS
          /\ CLASSES' = run.G.CLASSES
          /\ DEFAULTS' = run.G.DEFAULTS
    /\ invocations' = invocations + 1
    /\ UNCHANGED <<fsVars, finderVars, sessionVars>>

\* cli() has returned; the process goes on
Return ==
    /\ inv.active
    /\ inv' = NoInv
    /\ UNCHANGED <<fsVars, finderVars, processVars, invocations, sessionVars>>

NextCli ==
    \/ \E args \in CliArgs : Invoke(args)
    \/ Return

SpecCli == InitCli /\ [][NextCli]_vars

(***************************************************************************)
(* Command-line invocations on a template with companions in two           *)
(* directories, on broken extension files and on configuration errors      *)
(***************************************************************************)
LookupDisks ==
    { { ShTemplate, NameErrPy, DataTxt } \cup companions :
        companions \in SUBSET { F(<<"w","sub">>, <<"foo","sh","json">>), SubFooJson,
                                F(<<"w">>, <<"foo","sh","json">>), TopFooJson,
                                FooJ2Ext } }

LookupArgs ==
    [ template : { ShTemplate },
      variables : { << >>, << DataTxt >> },
      extensions : { NoFile, File(NameErrPy) },
      no_variable_file : BOOLEAN,
      no_extension_file : BOOLEAN,
      mode : { "none" },
      m : BOOLEAN,
      md : BOOLEAN,
      output : { NoFile },
      include_path : { << >> },
      encoding : { "utf-8", "utf-9" },
      template_variables : { << >> },
      cwd : { <<"w">>, <<"w","sub">> } ]

InitLookup ==
    /\ fsFiles \in LookupDisks
    /\ fsDirs = {}
    /\ call = NoCall
    /\ returned = {}
    /\ InitProcess
    /\ invocations = 0
    /\ inv = NoInv
    /\ InitNoSession

NextLookup ==
    \/ \E args \in LookupArgs : Invoke(args)
    \/ Return

SpecLookup == InitLookup /\ [][NextLookup]_vars

(***************************************************************************)
(* One Yasha instance used as a library                                    *)
(***************************************************************************)
YashaParams ==
    [ root_dir : { <<"w">> },
      variable_files : { << >>, << AYaml, BToml >>, << DataJson, DataIni >> },
      inline_variables : { EmptyDict,
                           [foo |-> Scalar("inline"), int |-> Scalar("9")] },
      yasha_extensions_files : { << >>, << ExtPy >> },
      template_lookup_paths : { << >>, << <<"w","sub">> >> },
      mode : { "none", "pedantic", "debug" },
      encoding : { "utf-8" },
      jinja_configs : { EmptyDict, [trim_blocks |-> "True"] } ]

SessionTemplates ==
    { PathTemplate(FooTemplate), PathTemplate(ValueTemplate),
      StrTemplate(<< Text("foo is "), Var("foo"), Include(<<"header","j2inc">>) >>),
      StrTemplate(<< Filter("filterfoo") >>) }

SessionOverrides ==
    { EmptyDict, [variable_start_string |-> "<<"], [ab |-> "x"] }

SessionRenderArgs ==
    { RenderArgs(t, d, e, EmptyDict, FALSE) :
        t \in SessionTemplates, d \in BOOLEAN, e \in BOOLEAN }
    \cup { RenderArgs(t, TRUE, TRUE, o, FALSE) :
              t \in SessionTemplates, o \in SessionOverrides }
    \cup { RenderArgs(t, TRUE, TRUE, EmptyDict, TRUE) : t \in SessionTemplates }

InitSession ==
    /\ fsFiles \in CliDisks
    /\ fsDirs = {}
    /\ call = NoCall
    /\ returned = {}
    /\ InitProcess
    /\ invocations = 0
    /\ inv = NoInv
    /\ InitNoSession

\* Yasha(**p)
New(p) ==
    /\ ~yasha.made
    /\ \A i \in 1..Len(p.variable_files) : p.variable_files[i] \in fsFiles
    /\ \A i \in 1..Len(p.yasha_extensions_files) :
            p.yasha_extensions_files[i] \in fsFiles
    /\ \E made \in { YashaInit(Registries(TESTS, FILTERS, PARSERS, CLASSES, DEFAULTS), p) } :
          /\ yasha' = made.self
          /\ heap' = IF made.raised = "" THEN made.M ELSE NoHeap
          /\ constructed' = IF made.raised = ""
                            THEN [ made |-> TRUE, params |-> p,
                                   self |-> made.self, heap |-> made.M ]
                            ELSE NoSession
          /\ result' = [call |-> "init", raised |-> made.raised,
                        message |-> made.message]
    /\ UNCHANGED <<fsVars, finderVars, processVars, cliVars, log>>

\* yasha.render_template(**a)
RenderTemplateCall(a) ==
    /\ yasha.made
    /\ log.calls < MaxCalls
    /\ a.template.kind = "path" => a.template.path \in fsFiles
    /\ \E extension_files \in Orderings(ExtensionCompanions(yasha, fsFiles, a)),
          data_files \in Orderings(DataCompanions(heap, yasha, fsFiles, a)) :
          \E done \in { RenderTemplate(heap, yasha, fsFiles, a,
                                       extension_files, data_files) } :
               /\ heap' = Kept(done.M)
               /\ result' = done.res
               /\ log' = [calls |-> log.calls + 1,
                          loaded |-> log.loaded \cup done.res.loaded]
    /\ UNCHANGED <<fsVars, finderVars, processVars, cliVars, yasha, constructed>>

\* yasha.get_makefile_dependencies(template)
GetMakefileDependenciesCall(template) ==
    /\ yasha.made
    /\ log.calls < MaxCalls
    /\ template.kind = "path" => template.path \in fsFiles
    /\ \E done \in { GetMakefileDependencies(
                          heap, yasha, fsFiles,
                          RenderArgs(template, TRUE, TRUE, EmptyDict, FALSE)) } :
          /\ heap' = Kept(done.M)
          /\ result' = done.res
    /\ log' = [log EXCEPT !.calls = @ + 1]
    /\ UNCHANGED <<fsVars, finderVars, processVars, cliVars, yasha, constructed>>

NextSession ==
    \/ \E p \in YashaParams : New(p)
    \/ \E a \in SessionRenderArgs : RenderTemplateCall(a)
    \/ \E t \in SessionTemplates : GetMakefileDependenciesCall(t)

SpecSession == InitSession /\ [][NextSession]_vars

(***************************************************************************)
(* Instances constructed from lists of variable files, extension files and *)
(* lookup paths, and asked for their dependencies                          *)
(***************************************************************************)
\* the lists of at most MaxFiles of the files, repetitions included
ListsOf(S) == UNION { [1..n -> S] : n \in 0..MaxFiles }

ConstructParams ==
    [ root_dir : { <<"w">> },
      variable_files : ListsOf({ AYaml, BToml, DataJson }),
      inline_variables : { EmptyDict, [b |-> Scalar("inline")] },
      yasha_extensions_files : { << >>, << ExtPy >>, << OrderPy >> },
      template_lookup_paths : { << >>, << <<"w","sub">> >>,
                                << <<"w">>, <<"w","sub">> >> },
      mode : { "none" },
      encoding : { "utf-8" },
      jinja_configs : { EmptyDict } ]

ConstructTemplates ==
    { PathTemplate(FooTemplate), PathTemplate(ValueTemplate),
      PathTemplate(ChainTemplate) }

NextConstruct ==
    \/ \E p \in ConstructParams : New(p)
    \/ \E t \in ConstructTemplates : GetMakefileDependenciesCall(t)

SpecConstruct == InitSession /\ [][NextConstruct]_vars

(***************************************************************************)
(* Claims about find_template_companion_files                              *)
(***************************************************************************)

\* C1: every returned path is an existing regular file whose first
\* dot-separated component is the template's stem and whose last suffix is
\* one of the given extensions.
C1_ReturnedAreCompanions ==
    call.made =>
        \A p \in returned :
            /\ p \in fsFiles
            /\ p \notin fsDirs
            /\ p.name[1] = call.template.name[1]
            /\ Suffix(p.name) \in call.extensions

\* a call returned a companion while a directory entry that is not one
\* (another stem, another extension, a directory, a missing name) exists
C1_Witness ==
    /\ call.made
    /\ returned # {}
    /\ (fsFiles \cup fsDirs) \ returned # {}

\* C2: every returned path lies in the template's directory or in an ancestor
\* of it at or below recurse_up_to; without a recurse_up_to that is a proper
\* ancestor of the template's directory only the template's own directory is
\* searched.
C2_WithinBoundary ==
    call.made =>
        LET t == call.template
            r == call.recurse_up_to
        IN /\ \A p \in returned :
                \/ p.dir = t.dir
                \/ /\ r.given
                   /\ IsPrefix(r.dir, p.dir)
                   /\ IsPrefix(p.dir, t.dir)
           /\ (~r.given \/ r.dir = t.dir \/ ~IsPrefix(r.dir, t.dir))
                => \A p \in returned : p.dir = t.dir

\* a file of an ancestor directory was returned while a file of a candidate
\* name exists outside recurse_up_to's subtree
C2_Witness ==
    /\ call.made
    /\ \E p \in returned : p.dir # call.template.dir
    /\ \E q \in fsFiles \ returned :
          /\ q.name \in DataFileNames(call.template, call.extensions)
          /\ IsPrefix(q.dir, call.template.dir)
          /\ ~IsPrefix(call.recurse_up_to.dir, q.dir)

\* the names the documentation gives for a template stem + s1...sn:
\* stem + s1...si + e for 0 <= i < n
DocumentedNames(template, extensions) ==
    { SubSeq(template.name, 1, i + 1) \o <<e>> :
        i \in 0..(Len(template.name) - 2), e \in extensions }

\* C3: every existing file named stem + s1...si + e in the template's own
\* directory is returned, and with recurse_up_to a proper ancestor every
\* existing file named stem + e in the ancestors up to recurse_up_to too.
C3_Complete ==
    call.made =>
        LET t == call.template
            r == call.recurse_up_to
        IN /\ \A n \in DocumentedNames(t, call.extensions) :
                [dir |-> t.dir, name |-> n] \in fsFiles
                    => [dir |-> t.dir, name |-> n] \in returned
           /\ (r.given /\ IsPrefix(r.dir, t.dir) /\ r.dir # t.dir) =>
                \A k \in Len(r.dir)..(Len(t.dir) - 1), e \in call.extensions :
                    LET p == [dir |-> SubSeq(t.dir, 1, k),
                              name |-> <<t.name[1], e>>]
                    IN p \in fsFiles => p \in returned

\* C3 for the templates whose name has no empty component
C3_CompleteOrdinaryNames ==
    (call.made /\ \A i \in 1..Len(call.template.name) : call.template.name[i] # "")
        => C3_Complete

(***************************************************************************)
(* Claims about the command line                                           *)
(***************************************************************************)
\* the variables a template refers to before anything else can fail:
\* its references up to the first include
RECURSIVE LeadingVars(_)
LeadingVars(text) ==
    IF text = << >> \/ Head(text).kind = "include" THEN << >>
    ELSE (IF Head(text).kind = "var" THEN << Head(text).s >> ELSE << >>)
            \o LeadingVars(Tail(text))

\* the text of a template with its resolvable includes put in place
RECURSIVE Flat(_, _, _)
Flat(text, search_path, files) ==
    IF text = << >> THEN << >>
    ELSE IF Head(text).kind # "include"
    THEN << Head(text) >> \o Flat(Tail(text), search_path, files)
    ELSE LET found == RealPath(files, search_path, Head(text).ref)
         IN (IF found = NoPath THEN << Head(text) >>
             ELSE Flat(ReadText(found), search_path, files))
                \o Flat(Tail(text), search_path, files)

\* the invocation got as far as rendering the template
Rendering == inv.active /\ inv.out.stage = "render"

TemplateText ==
    Flat(ReadText(inv.args.template),
         << inv.args.template.dir >> \o inv.args.include_path, fsFiles)

UndefinedVars ==
    SelectSeq(LeadingVars(TemplateText), LAMBDA v : v \notin DOMAIN inv.out.context)

\* the invocation reads {{ }} as a variable reference
DelimitersOfTemplate ==
    /\ inv.out.delimiters["VARIABLE_START_STRING"] = "{{"
    /\ inv.out.delimiters["VARIABLE_END_STRING"] = "}}"

\* C8: in pedantic mode a template that references an undefined variable
\* fails with a ClickException, exit code 1, whose message is
\* "Variable '<name>' is undefined".
C8_PedanticUndefinedFails ==
    (Rendering /\ inv.args.mode = "pedantic" /\ DelimitersOfTemplate
        /\ UndefinedVars # << >>) =>
        /\ inv.out.status = "ClickException"
        /\ inv.out.exit = 1
        /\ inv.out.message = << "Variable ", "'", UndefinedVars[1], "' is undefined" >>
        /\ ~inv.out.outfile.written

C8_Witness ==
    /\ Rendering
    /\ DelimitersOfTemplate
    /\ inv.args.mode = "pedantic"
    /\ inv.args.template = ValueTemplate
    /\ "foo" \notin DOMAIN inv.out.context
    /\ inv.out.status = "ClickException"

\* C9: in default and in debug mode an undefined variable is never fatal: it
\* renders as empty text in default mode and as the reference {{ name }} in
\* debug mode, and the render completes.
C9_UndefinedNotFatal ==
    (Rendering /\ inv.args.mode # "pedantic") =>
        /\ inv.out.status # "ClickException"
        /\ (\A i \in 1..Len(TemplateText) : TemplateText[i].kind # "include")
              => inv.out.status = "ok" /\ inv.out.exit = 0 /\ inv.out.outfile.written
        /\ (inv.args.template = ValueTemplate /\ DelimitersOfTemplate
                /\ "foo" \notin DOMAIN inv.out.context) =>
              inv.out.outfile.content =
                  IF inv.args.mode = "debug"
                  THEN << "The value of foo is ", "{{ ", "foo", " }}", "." >>
                  ELSE << "The value of foo is ", "", "." >>

C9_Witness ==
    /\ Rendering
    /\ DelimitersOfTemplate
    /\ inv.args.mode = "debug"
    /\ inv.args.template = ValueTemplate
    /\ "foo" \notin DOMAIN inv.out.context
    /\ inv.out.outfile.content = << "The value of foo is ", "{{ ", "foo", " }}", "." >>

\* the dependency line the documentation gives: the output, then the
\* template, the variable files used, the extension file used, the
\* sub-templates, all relative to the working directory
ExpectedLine ==
    LET a == inv.args
        out == IF a.output.given THEN a.output.path
               ELSE F(a.template.dir, Front(a.template.name))
        subs == FindReferencedTemplates(fsFiles, a.template,
                                        << a.template.dir >> \o a.include_path)
        n == Len(inv.out.variables)
        e == IF inv.out.extensions.given THEN 1 ELSE 0
    IN [ target |-> RelPath(out, a.cwd), separator |-> ": ",
         deps |-> [ i \in 1..(1 + n + e + Len(subs)) |->
                      RelPath(IF i = 1 THEN a.template
                              ELSE IF i <= 1 + n THEN inv.out.variables[i - 1]
                              ELSE IF i <= 1 + n + e THEN inv.out.extensions.path
                              ELSE subs[i - 1 - n - e],
                              a.cwd) ] ]

\* C10: with -M or -MD the dependency line is the relative output path, ": "
\* and the relative paths of the template, the variable files in order, the
\* extension file if any and the sub-templates; -M prints it, -MD writes it
\* with a trailing newline to <output path>.d.
C10_DependencyLine ==
    inv.active =>
        /\ inv.out.stdout # << >> =>
              inv.args.m /\ inv.out.stdout = << ExpectedLine >>
        /\ inv.out.dfile.written =>
              /\ inv.args.md
              /\ inv.out.dfile.content = ExpectedLine
              /\ inv.out.dfile.end = "\n"
              /\ inv.out.dfile.path.dir = RelPathTarget(ExpectedLine, inv.args.cwd).dir
              /\ inv.out.dfile.path.name =
                    RelPathTarget(ExpectedLine, inv.args.cwd).name \o << "d" >>
        /\ (inv.out.stage \in {"dependencies", "variables", "render"}
                /\ inv.out.status # "Exception") =>
              /\ inv.args.m => inv.out.stdout # << >>
              /\ (inv.args.md /\ ~inv.args.m) => inv.out.dfile.written
        /\ (inv.args.m /\ inv.args.template = FooTemplate /\ inv.args.cwd = <<"w","sub">>
                /\ inv.out.variables = << SubFooJson >> /\ ~inv.out.extensions.given
                /\ ~inv.args.output.given /\ inv.out.status = "ok") =>
              inv.out.stdout =
                << [ target |-> [up |-> 0, dir |-> << >>, name |-> <<"foo","c">>],
                     separator |-> ": ",
                     deps |-> << [up |-> 0, dir |-> << >>, name |-> <<"foo","c","j2">>],
                                 [up |-> 0, dir |-> << >>, name |-> <<"foo","json">>],
                                 [up |-> 0, dir |-> << >>, name |-> <<"header","j2inc">>] >> ] >>

C10_Witness ==
    /\ inv.active
    /\ inv.args.md /\ ~inv.args.m
    /\ inv.out.dfile.written
    /\ inv.out.extensions.given
    /\ Len(inv.out.variables) = 2
    /\ Len(inv.out.dfile.content.deps) = 5
    /\ inv.args.cwd # inv.args.template.dir

\* C11: -M never renders: an invocation with -M writes neither the output
\* file nor a .d file and, when it succeeds, has printed the dependency line
\* and stopped there; an invocation with -MD and without -M that gets to
\* rendering has written the .d file, and when it succeeds the rendered
\* template is in the output file.
C11_MSkipsRender ==
    inv.active =>
        /\ inv.args.m =>
              /\ ~inv.out.outfile.written
              /\ ~inv.out.dfile.written
              /\ inv.out.stage # "render"
              /\ inv.out.status = "ok" =>
                    /\ inv.out.stage = "dependencies"
                    /\ Len(inv.out.stdout) = 1
        /\ (inv.args.md /\ ~inv.args.m) =>
              /\ inv.out.stdout = << >>
              /\ inv.out.stage = "render" => inv.out.dfile.written
              /\ inv.out.status = "ok" =>
                    /\ inv.out.stage = "render"
                    /\ inv.out.dfile.written
                    /\ inv.out.outfile.written
                    /\ inv.out.outfile.path = CliOutput(inv.args)
                    /\ inv.out.dfile.path.name = inv.out.outfile.path.name \o << "d" >>

\* -M together with -MD and an explicit output: the line is printed and
\* nothing is written
C11_Witness ==
    /\ inv.active
    /\ inv.args.m /\ inv.args.md
    /\ inv.args.output.given
    /\ inv.out.status = "ok"
    /\ Len(inv.out.stdout) = 1
    /\ Len(inv.out.stdout[1].deps) >= 3
    /\ ~inv.out.outfile.written
    /\ ~inv.out.dfile.written

\* the invocation got as far as the dependency block of -M / -MD
AtDependencies ==
    /\ inv.active
    /\ inv.args.m \/ inv.args.md
    /\ inv.out.stage \in {"dependencies", "variables", "render"}

\* the references of the invocation's template that are a file under one of
\* its search paths, each as the file found
ResolvableReferences ==
    SelectSeq(FindReferencedTemplates(fsFiles, inv.args.template,
                  << inv.args.template.dir >> \o inv.args.include_path),
              LAMBDA found : found # NoPath)

\* C12: a literal reference that is a file under none of the search paths
\* adds nothing to the dependencies and raises nothing: the -M line is
\* printed, the -MD line written, with the template, the variable files,
\* the extension file and the references that do resolve.
C12_UnresolvableDropped ==
    AtDependencies =>
        LET n == 1 + Len(inv.out.variables)
                   + (IF inv.out.extensions.given THEN 1 ELSE 0)
            line == IF inv.args.m THEN inv.out.stdout ELSE << inv.out.dfile.content >>
        IN /\ ~(inv.out.status = "Exception" /\ inv.out.stage = "dependencies")
           /\ inv.args.m => Len(inv.out.stdout) = 1
           /\ ~inv.args.m => inv.out.dfile.written
           /\ Len(line) = 1
           /\ Len(line[1].deps) = n + Len(ResolvableReferences)
           /\ \A i \in 1..Len(ResolvableReferences) :
                 line[1].deps[n + i] = RelPath(ResolvableReferences[i], inv.args.cwd)

\* what the parser of a data file gives for the file
FileGives(parsers, file) == Parsed(parsers[Suffix(file.name)], file)

\* the last file of the list that defines the key
LastDefining(parsers, files, k) ==
    files[CHOOSE i \in 1..Len(files) :
            /\ k \in DOMAIN FileGives(parsers, files[i])
            /\ \A j \in (i + 1)..Len(files) :
                  k \notin DOMAIN FileGives(parsers, files[j])]

\* C4: the context built from an ordered list of data files is their
\* left-to-right shallow merge: every top-level key has the value given by
\* the last file that defines it, a nested mapping being replaced wholesale
\* (a.yaml {a:1,b:100} then b.toml {b:2,c:3} gives a=1, b=2, c=3).
C4_ShallowMerge ==
    Rendering =>
        LET files == inv.out.variables
            parsers == inv.out.parsers
            inline == ParseCliVariables(inv.args.template_variables).variables
            keys == UNION { DOMAIN FileGives(parsers, files[i]) : i \in 1..Len(files) }
        IN /\ DOMAIN inv.out.context = keys \cup DOMAIN inline
           /\ \A k \in keys \ DOMAIN inline :
                 inv.out.context[k] =
                     FileGives(parsers, LastDefining(parsers, files, k))[k]

\* C7: loading an extension file changes the tests, filters, parsers,
\* extension classes and delimiters of that session only: no dictionary of
\* the process is changed, and an invocation that loads no extension file
\* sees none of the registrations of another.
C7_ScopedToOneSession ==
    /\ TESTS = InitialTESTS
    /\ FILTERS = InitialFILTERS
    /\ PARSERS = InitialPARSERS
    /\ CLASSES = InitialCLASSES
    /\ DEFAULTS = InitialDEFAULTS
    /\ (inv.active /\ inv.out.stage \in {"dependencies", "variables", "render"}
            /\ ~inv.out.extensions.given) =>
          /\ inv.out.tests = InitialTESTS
          /\ inv.out.filters = InitialFILTERS
          /\ inv.out.parsers = InitialPARSERS
          /\ inv.out.classes = InitialCLASSES
          /\ inv.out.delimiters = InitialDEFAULTS

(***************************************************************************)
(* Claims about the Yasha class                                            *)
(***************************************************************************)
\* C5: in the context a template is rendered with, every key of the inline
\* overrides has the override's value, whatever the explicit data files and
\* the discovered companion data files give to that key.
C5_InlineOverridesWin ==
    (yasha.made /\ result.call = "render" /\ result.rendering) =>
        \A k \in DOMAIN constructed.params.inline_variables :
            /\ k \in DOMAIN result.context
            /\ result.context[k] = constructed.params.inline_variables[k]

\* the base configuration of an instance
BaseConfiguration(self, M) ==
    LET e == M.envs[self.env]
    IN [ filters |-> M.objs[e.filters], tests |-> M.objs[e.tests],
         globals |-> M.objs[e.globals], extensions |-> M.objs[e.extensions],
         delimiters |-> [k \in DOMAIN EnvironmentDefaults |-> e.attrs[k]],
         undefined |-> e.undefined, searchpath |-> M.objs[e.loader],
         parsers |-> M.objs[self.parsers] ]

\* what the last call can give on the instance as it was constructed
OnFreshInstance ==
    LET a == result.args
        self == constructed.self
        M == constructed.heap
    IN IF result.call = "render"
       THEN { RenderTemplate(M, self, fsFiles, a, extension_files, data_files).res :
                extension_files \in Orderings(ExtensionCompanions(self, fsFiles, a)),
                data_files \in Orderings(DataCompanions(M, self, fsFiles, a)) }
       ELSE { GetMakefileDependencies(M, self, fsFiles, a).res }

ReferencesOfCall ==
    LET t == result.args.template
    IN IF ReadsBlocks(JinjaView(heap, yasha.env))
       THEN References(IF t.kind = "path" THEN ReadText(t.path) ELSE t.text)
       ELSE << >>

\* the search paths of the instance's loader
SearchPathOfInstance == heap.objs[heap.envs[yasha.env].loader]

\* C13: each literal reference that is a file under some search path
\* contributes exactly one dependency, the file under the first search path
\* where it exists; a search path where it does not exist contributes
\* nothing.
C13_FirstSearchPathWins ==
    (yasha.made /\ result.call = "deps"
        /\ \A i \in 1..Len(ReferencesOfCall) :
              RealPath(fsFiles, SearchPathOfInstance, ReferencesOfCall[i]) # NoPath) =>
        result.deps =
            yasha.variable_files \o yasha.yasha_extensions_files
                \o [i \in 1..Len(ReferencesOfCall) |->
                       RealPath(fsFiles, SearchPathOfInstance, ReferencesOfCall[i])]

\* the invocation looked for its variable file by itself
LooksUpVariableFile ==
    /\ inv.active
    /\ inv.args.variables = << >>
    /\ ~inv.args.no_variable_file
    /\ inv.out.stage \in {"dependencies", "variables", "render"}

\* the companions of the invocation's template a parser exists for: in the
\* template's directory or an ancestor of it, named as the template's stem,
\* a part of its suffix chain and a parser's extension
VariableFileCandidates ==
    LET t == inv.args.template
    IN { p \in fsFiles :
            /\ IsPrefix(p.dir, t.dir)
            /\ Len(p.name) >= 2
            /\ Last(p.name) \in DOMAIN inv.out.parsers
            /\ \E i \in 1..(Len(t.name) - 1) : Front(p.name) = SubSeq(t.name, 1, i) }

\* c is nearer to the template than v or, in the same directory, matches
\* more of the template's suffix chain
WinsOver(c, v) ==
    \/ Len(c.dir) > Len(v.dir)
    \/ c.dir = v.dir /\ Len(c.name) > Len(v.name)

\* C14: the variable file the command line finds by itself is a companion
\* that no other companion wins over: none is in a nearer directory, none
\* in the same directory matches more of the suffix chain.
C14_NearestMostSpecific ==
    LooksUpVariableFile =>
        IF VariableFileCandidates = {} THEN inv.out.variables = << >>
        ELSE /\ Len(inv.out.variables) = 1
             /\ inv.out.variables[1] \in VariableFileCandidates
             /\ \A c \in VariableFileCandidates : ~WinsOver(c, inv.out.variables[1])

\* the invocation loaded an extension file
LoadedExtensionFile ==
    /\ inv.active
    /\ inv.out.extensions.given
    /\ inv.out.stage \in {"dependencies", "variables", "render"}

\* every function prefix + X of the file is in the table under X and every
\* entry of the file's bulk dictionary is in it too
HasNamedAndBulk(table, file, prefix, names, bulk) ==
    /\ \A x \in names : x \in DOMAIN table
    /\ \A x \in names \ DOMAIN bulk : table[x] = Function(file, prefix, x)
    /\ \A x \in DOMAIN bulk : x \in DOMAIN table /\ table[x] = bulk[x]

\* C15: after an extension file is loaded every test_X, filter_X and parse_X
\* of it is registered under X and every entry of its TESTS, FILTERS and
\* PARSERS dictionaries is registered as well, also when the file has both
\* for one table.
C15_NamedAndBulkRegistered ==
    LoadedExtensionFile =>
        LET file == inv.out.extensions.path
            module == ModuleOf(file)
        IN /\ HasNamedAndBulk(inv.out.tests, file, "test_", module.test_,
                              module.bulkTests.dict)
           /\ HasNamedAndBulk(inv.out.filters, file, "filter_", module.filter_,
                              module.bulkFilters.dict)
           /\ HasNamedAndBulk(inv.out.parsers, file, "parse_", module.parse_,
                              module.bulkParsers.dict)

\* the table has the bulk dictionary's entry under every name that both a
\* function and the bulk dictionary of the module register
BulkWins(table, names, bulk) ==
    \A x \in names \cap DOMAIN bulk : x \in DOMAIN table /\ table[x] = bulk[x]

\* C16: when an extension file has a function test_x, filter_x or parse_x
\* and an entry of TESTS, FILTERS or PARSERS for the same registered name,
\* the name is registered with the entry of the dictionary, whichever of the
\* two the file defines first.
C16_BulkWinsCollision ==
    yasha.made =>
        \A i \in 1..Len(yasha.yasha_extensions_files) :
            LET module == ModuleOf(yasha.yasha_extensions_files[i])
                e == heap.envs[yasha.env]
            IN /\ BulkWins(heap.objs[e.tests], module.test_, module.bulkTests.dict)
               /\ BulkWins(heap.objs[e.filters], module.filter_,
                           module.bulkFilters.dict)
               /\ BulkWins(heap.objs[yasha.parsers], module.parse_,
                           module.bulkParsers.dict)

\* the extension file of the invocation, given with -e or found as a
\* companion of the template
ExtensionFileOfInvocation == CliExtensions(inv.args, fsFiles, fsDirs)

\* the extension file of the invocation fails to load
BrokenExtensionFile ==
    /\ inv.active
    /\ inv.args.encoding \in KnownEncodings
    /\ ExtensionFileOfInvocation.given
    /\ ModuleOf(ExtensionFileOfInvocation.path).error # "none"

\* C17: when the extension file of an invocation has a syntax error or a
\* name error the invocation ends at the load with a ClickException, exit
\* code 1, whose message starts with "Unable to load extensions" and, for a
\* syntax error, names the file relative to the working directory and the
\* line; nothing is registered, printed, written or rendered.
C17_ExtensionLoadError ==
    BrokenExtensionFile =>
        LET file == ExtensionFileOfInvocation.path
            module == ModuleOf(file)
        IN /\ inv.out.status = "ClickException"
           /\ inv.out.exit = 1
           /\ inv.out.stage = "extensions"
           /\ inv.out.message =
                 IF module.error = "syntax"
                 THEN << "Unable to load extensions\n", "Invalid syntax", " (" >>
                         \o RelPathText(RelPath(file, inv.args.cwd))
                         \o << ", line ", module.lineno, ")" >>
                 ELSE << "Unable to load extensions, ", module.msg >>
           /\ ~inv.out.outfile.written
           /\ ~inv.out.dfile.written
           /\ inv.out.stdout = << >>
           /\ Registries(TESTS, FILTERS, PARSERS, CLASSES, DEFAULTS) = inv.before

\* the companion foo.j2ext with a syntax error, found by the invocation
\* itself from the parent directory, with -MD
C17_Witness ==
    /\ BrokenExtensionFile
    /\ ExtensionFileOfInvocation.path = FooJ2Ext
    /\ ~inv.args.extensions.given
    /\ inv.args.md
    /\ inv.args.cwd = <<"w">>
    /\ inv.out.status = "ClickException"
    /\ inv.out.message =
          << "Unable to load extensions\n", "Invalid syntax", " (",
             "sub", "/", "foo", ".", "j2ext", ", line ", "1", ")" >>

\* the invocation ended on a configuration error: its encoding is not a
\* known one, or a variable file of it has an extension without a parser
ConfigurationError ==
    /\ inv.active
    /\ \/ inv.args.encoding \notin KnownEncodings
       \/ /\ inv.out.status = "ClickException"
          /\ inv.out.stage = "variables"
          /\ \E i \in 1..Len(inv.out.variables) :
                Suffix(inv.out.variables[i].name) \notin DOMAIN inv.out.parsers

\* C18: an invocation that ends on a configuration error exits non-zero and
\* has written neither the output file nor the .d file, whatever its
\* options.
C18_NoPartialOutput ==
    ConfigurationError =>
        /\ inv.out.status = "ClickException"
        /\ inv.out.exit # 0
        /\ ~inv.out.outfile.written
        /\ ~inv.out.dfile.written

\* C19: a template is rendered with the data of all its variable files or
\* not at all: when the render happens every key of every listed file is in
\* the context, no file having been replaced by an empty mapping.
C19_NoEmptyMappingForFailure ==
    Rendering =>
        \A i \in 1..Len(inv.out.variables) :
            \A k \in DOMAIN DataOf(inv.out.variables[i]) :
                k \in DOMAIN inv.out.context

\* a list of files without the immediate repetitions of a file
RECURSIVE WithoutRepeats(_)
WithoutRepeats(files) ==
    IF Len(files) <= 1 THEN files
    ELSE IF files[Len(files)] = files[Len(files) - 1]
    THEN WithoutRepeats(Front(files))
    ELSE Append(WithoutRepeats(Front(files)), Last(files))

\* C20: the context merged from a list of data files is the one merged from
\* the list with every immediate repetition of a file removed: [A, A] gives
\* what [A] gives, [A, B, B] what [A, B] gives.
C20_MergeIdempotent ==
    yasha.made =>
        LET once == LoadDataFiles(heap.objs[yasha.parsers],
                                  WithoutRepeats(yasha.variable_files), 0)
        IN /\ once.raised = ""
           /\ heap.objs[heap.envs[yasha.env].globals] =
                 Update(once.value, constructed.params.inline_variables)

\* an instance made from [a.yaml, b.toml, b.toml]
C20_Witness ==
    /\ yasha.made
    /\ yasha.variable_files = << AYaml, BToml, BToml >>
    /\ DOMAIN heap.objs[heap.envs[yasha.env].globals] = {"a", "b", "c"}
    /\ heap.objs[heap.envs[yasha.env].globals]["b"] = Scalar("2")
(***************************************************************************)
(* parse_cli_variables on its own                                          *)
(***************************************************************************)
MaxArgs == 2

\* the texts given as values
ValueTexts ==
    { << "foo" >>, << "1" >>, << "False" >>,
      << "foo", ",", "bar" >>,
      << "\"", "foo", ",", "bar", "\"" >>,
      << "\"", "foo", ",", "bar", "\"", ",", "baz" >>,
      << "[", "1", ",", "2", "]" >>,
      << "1", ",", "2" >> }

\* --var=text
EqArg(text) == << "--", "var", "=" >> \o text

VariableArgs ==
    { EqArg(v) : v \in ValueTexts } \cup ValueTexts
        \cup { << "--", "var" >>, << "--" >>, << "x" >> }

InitVariables ==
    /\ fsFiles = {}
    /\ fsDirs = {}
    /\ call = NoCall
    /\ returned = {}
    /\ InitProcess
    /\ invocations = 0
    /\ inv = NoInv
    /\ yasha = NoSession
    /\ heap = NoHeap
    /\ constructed = NoSession
    /\ log = NoLog
    /\ \E n \in 0..MaxArgs : \E args \in [1..n -> VariableArgs] :
          result = [call |-> "none", args |-> args]

ParseCliVariablesCall ==
    /\ result.call = "none"
    /\ "args" \in DOMAIN result
    /\ result' = Update([call |-> "parse_cli_variables", args |-> result.args],
                         ParseCliVariables(result.args))
    /\ UNCHANGED <<fsFiles, fsDirs, call, returned, TESTS, FILTERS, PARSERS,
                   CLASSES, DEFAULTS, invocations, inv, yasha, heap,
                   constructed, log>>

NextVariables == ParseCliVariablesCall

SpecVariables == InitVariables /\ [][NextVariables]_vars

\* the value documented for a text: the literal when the text is a number,
\* a boolean, a list or a tuple, otherwise the comma-separated segments of
\* the text, a double-quoted segment kept whole, or the one segment alone
DocumentedValue(text) ==
    LET literal == LiteralEval(text)
        fields == CsvFields(text)
    IN IF literal.ok /\ literal.value.tag \in {"number", "bool", "list", "tuple"}
       THEN literal.value
       ELSE IF Len(fields) = 1 THEN Py("str", fields[1], << >>)
       ELSE Py("list", << >>, [i \in 1..Len(fields) |-> Py("str", fields[i], << >>)])

ParsedCliVariables == result.call = "parse_cli_variables"

\* C21: --var=text and the two arguments --var text bind var to the same
\* value, the documented value of the text, and the names bound are names
\* of arguments that start with '--'.
C21_SameValueBothForms ==
    ParsedCliVariables =>
        /\ \A v \in ValueTexts :
              (result.args = << EqArg(v) >> \/ result.args = << << "--", "var" >>, v >>)
                  => /\ result.raised = ""
                     /\ result.variables = [k \in {"var"} |-> DocumentedValue(v)]
        /\ result.raised = "" =>
              \A k \in DOMAIN result.variables :
                  \E i \in 1..Len(result.args) :
                      /\ Dashed(result.args[i])
                      /\ k = IF Len(result.args[i]) >= 2 THEN result.args[i][2] ELSE ""

\* a render_template call of the instance has rendered
LibraryRendering == yasha.made /\ result.call = "render" /\ result.rendering

\* C22: of the companion data files a render has loaded, the one no other
\* wins over (none nearer, none in the same directory with a longer name)
\* gives its value to each key it defines, and every render of the same
\* template on the same files gives the same context.
C22_SpecificShadowsBroad ==
    LibraryRendering =>
        /\ \A f \in result.loaded : \A k \in DOMAIN DataOf(f) :
              (\A g \in result.loaded : k \in DOMAIN DataOf(g) => ~WinsOver(g, f))
                  => result.context[k] = DataOf(f)[k]
        /\ \A r \in OnFreshInstance : r.rendering => r.context = result.context

\* get_makefile_dependencies was called for a template file
DependenciesOfFile ==
    yasha.made /\ result.call = "deps" /\ result.args.template.kind = "path"

\* C23: the dependency list of a template file starts with the template
\* itself, then come the explicit data files and the explicit extension
\* files, then the referenced sub-templates.
C23_TemplateFirst ==
    DependenciesOfFile =>
        LET explicit == yasha.variable_files \o yasha.yasha_extensions_files
        IN /\ Len(result.deps) >= 1 + Len(explicit)
           /\ result.deps[1] = result.args.template.path
           /\ SubSeq(result.deps, 2, 1 + Len(explicit)) = explicit

\* how deep the references of the model's templates nest
MaxDepth == 3

\* the files reached from a text through literal references that resolve
\* in the search paths, the references of the files reached included
RECURSIVE ReachedFrom(_, _, _, _)
ReachedFrom(text, search_path, files, depth) ==
    IF depth = 0 THEN {}
    ELSE LET direct == { RealPath(files, search_path, r) :
                            r \in Range(References(text)) } \ { NoPath }
         IN direct \cup UNION { ReachedFrom(ReadText(p), search_path, files, depth - 1) :
                                  p \in direct }

\* C24: every sub-template reached from the template through literal
\* references that resolve in the search paths, directly or through another
\* sub-template, is in the dependency list.
C24_TransitiveListed ==
    (DependenciesOfFile /\ ReadsBlocks(JinjaView(heap, yasha.env))) =>
        \A p \in ReachedFrom(ReadText(result.args.template.path),
                              SearchPathOfInstance, fsFiles, MaxDepth) :
            p \in Range(result.deps)

\* C25: a call for a template given as a string loads no discovered file,
\* leaves the search path of the instance as constructed, and its dependency
\* list holds the explicit data and extension files only, no sub-template.
C25_StringTemplateAlone ==
    (yasha.made /\ result.call \in {"render", "deps"}
        /\ result.args.template.kind = "str") =>
        /\ result.loaded = {}
        /\ SearchPathOfInstance = yasha.template_lookup_paths
        /\ result.call = "deps" =>
              result.deps = yasha.variable_files \o yasha.yasha_extensions_files

\* C26: a returned file of an ancestor directory is named stem + extension,
\* without any part of the template's suffix chain in between.
C26_AncestorsStemOnly ==
    call.made =>
        \A p \in returned :
            p.dir # call.template.dir => Len(p.name) = 2

\* C28: the template is not among the files returned for it.
C28_NotItsOwnCompanion ==
    call.made => call.template \notin returned

\* C27: when a render has loaded a companion extension file that defines a
\* parser for an extension and a companion data file of that extension, the
\* data in the context is what that parser gives for the file.
C27_CompanionParserUsed ==
    LibraryRendering =>
        \A e \in result.loaded : \A d \in result.loaded :
            ( /\ Suffix(e.name) \in EXTENSION_FILE_FORMATS
              /\ Suffix(d.name) \in ModuleOf(e).parse_ ) =>
                /\ "parsed_by" \in DOMAIN result.context
                /\ result.context["parsed_by"] = Scalar(Suffix(d.name))

(***************************************************************************)
(* The upward walk of find_template_companion, one directory at a time     *)
(***************************************************************************)
MaxWalkDepth == 2

\* directories of at most MaxWalkDepth components
WalkDirs == UNION { [1..n -> {"a", "b"}] : n \in 0..MaxWalkDepth }

\* an absolute directory as os.path.abspath gives it: normpath keeps two
\* leading slashes (and only two), so the root is "/" or "//"
AbsDir(root, parts) == [root |-> root, parts |-> parts]

\* os.path.split(path)[0]: the parent, a root being its own parent
SplitHead(path) ==
    IF path.parts = << >> THEN path ELSE AbsDir(path.root, Front(path.parts))

\* lines 49-50: dirname(commonprefix((getcwd(), current_path))); getcwd()
\* starts with one slash, so with a current_path under "//" the common
\* prefix is "/"
StopPath(cwd, current_path) ==
    IF current_path.root = "/"
    THEN AbsDir("/", DirnameOfCommonPrefix(cwd, current_path.parts))
    ELSE AbsDir("/", << >>)

\* the files of the walk: the template t.j2 in its directory, t.json next
\* to it and in the root directory
WalkFiles(dir) ==
    { F(dir, <<"t","j2">>), F(dir, <<"t","json">>), F(<< >>, <<"t","json">>) }

InitWalk ==
    /\ \E dir \in WalkDirs : fsFiles = WalkFiles(dir)
    /\ fsDirs = {}
    /\ call = NoCall
    /\ returned = {}
    /\ InitProcess
    /\ invocations = 0
    /\ inv = NoInv
    /\ yasha = NoSession
    /\ heap = NoHeap
    /\ constructed = NoSession
    /\ log = NoLog
    /\ result = [call |-> "none", status |-> "idle"]

\* lines 40-52 of find_template_companion(template), template being a file
\* given with one or two leading slashes, from the working directory cwd
FindTemplateCompanionCall(root, cwd) ==
    /\ result.call = "none"
    /\ \E template \in { p \in fsFiles : p.name = <<"t","j2">> } :
          result' = [ call |-> "find_template_companion",
                      status |-> "walking",
                      template |-> template,
                      cwd |-> cwd,
                      current_path |-> AbsDir(root, template.dir),
                      stop_path |-> StopPath(cwd, AbsDir(root, template.dir)),
                      yielded |-> << >>,
                      turns |-> 0 ]
    /\ UNCHANGED <<fsFiles, fsDirs, call, returned, TESTS, FILTERS, PARSERS,
                   CLASSES, DEFAULTS, invocations, inv, yasha, heap,
                   constructed, log>>

\* lines 54-76, one turn of the loop: the directory is listed and its
\* companions yielded, then the walk stops or goes to the parent; turns is
\* the number of turns taken, modulo 2
WalkStep ==
    /\ result.status = "walking"
    /\ result' = [result EXCEPT
           !.yielded = CompanionsIn(fsFiles, fsDirs, result.template,
                                    result.current_path.parts),
           !.turns = (@ + 1) % 2,
           !.status = IF result.current_path = result.stop_path
                      THEN "done" ELSE "walking",
           !.current_path = IF result.current_path = result.stop_path
                            THEN @ ELSE SplitHead(@)]
    /\ UNCHANGED <<fsFiles, fsDirs, call, returned, TESTS, FILTERS, PARSERS,
                   CLASSES, DEFAULTS, invocations, inv, yasha, heap,
                   constructed, log>>

NextWalk ==
    \/ \E root \in {"/", "//"}, cwd \in WalkDirs : FindTemplateCompanionCall(root, cwd)
    \/ WalkStep

SpecWalk == InitWalk /\ [][NextWalk]_vars

\* the loop runs on its own: a turn that can be taken is taken
SpecWalkFair == SpecWalk /\ WF_vars(WalkStep)

\* C29: a started walk ends: it reaches the directory where it stops.
C29_WalkTerminates ==
    (result.status = "walking") ~> (result.status = "done")

\* C30: for a template in the working directory or below it, the variable
\* file the command line finds by itself lies in the working directory or
\* below it, never in a directory above.
C30_NotAboveCwd ==
    (LooksUpVariableFile /\ IsPrefix(inv.args.cwd, inv.args.template.dir)) =>
        \A i \in 1..Len(inv.out.variables) :
            IsPrefix(inv.args.cwd, inv.out.variables[i].dir)

====
